---- MODULE Spec2Model ----
(***************************************************************************)
(* A model of the warp engine (github.com/dezlitz/warp): Initialize        *)
(* validates a list of functions and builds an Engine; Run launches one    *)
(* goroutine per function in an errgroup, the goroutines synchronise on    *)
(* one channel per output type and exchange values through a sync.Map.     *)
(***************************************************************************)
EXTENDS Integers, Sequences, FiniteSets, TLC

(***************************************************************************)
(* Bounds of the model.                                                    *)
(***************************************************************************)
\* the longest list of functions handed to Initialize
MaxFns == 3
\* the longest list of provided inputs handed to Run
MaxProvided == 2

(***************************************************************************)
(* reflect.Type: a type is its name.  Optional[T] is the generic wrapper   *)
(* of optional.go; context.Context and error are the two distinguished    *)
(* interface types.                                                        *)
(***************************************************************************)
BaseTypes == {"A", "B", "C", "D", "E"}

ContextT == "context.Context"

ErrorT == "error"

Optional(t) == "Optional[" \o t \o "]"

OptionalTypes == {Optional(t) : t \in BaseTypes}

\* optional.go isOptional: the type implements the unexported marker interface
isOptional(t) == t \in OptionalTypes

\* unwrapOptional as it would be if it returned every type unaltered
unwrapOptional_Identity(t) == t

\* optional.go unwrapOptional, first result: the type of the Val field of an
\* Optional[T], any other type unaltered (the second result is isOptional(t))
unwrapOptional(t) == IF isOptional(t) THEN CHOOSE b \in BaseTypes : Optional(b) = t ELSE t

\* the nil error
Nil == "nil"

(***************************************************************************)
(* Values.  A reflect.Value is its type and its content; the content of an *)
(* Optional[T] is the pair Val, IsSet, the content of any other value is   *)
(* Val alone (IsSet is kept TRUE so that all values are records of one     *)
(* shape).  Contents are strings, the zero content is "".                  *)
(***************************************************************************)
Plain(t, v) == [type |-> t, Val |-> v, IsSet |-> TRUE]

OptionalValue(t, v, set) == [type |-> Optional(t), Val |-> v, IsSet |-> set]

\* reflect.Zero(t) for an Optional type t
Zero(t) == [type |-> t, Val |-> "", IsSet |-> FALSE]

\* reflect.ValueOf(ctx)
CtxValue == [type |-> ContextT, Val |-> "ctx", IsSet |-> TRUE]

\* engine.go newOptional: an Optional of type t holding v, IsSet = true
newOptional(t, v) == [type |-> t, Val |-> v.Val, IsSet |-> TRUE]

(***************************************************************************)
(* Functions handed to Initialize.  A function value is its name (the      *)
(* identity of the closure) and its reflect.Type: parameter types, result  *)
(* types, variadic flag.  kind is the reflect.Kind of the argument, so     *)
(* that a non-function argument can be written down too.                   *)
(***************************************************************************)
Func(name, ins, outs) ==
    [name |-> name, kind |-> "func", ins |-> ins, outs |-> outs, variadic |-> FALSE]

\* reflect.TypeOf(fn): two functions of the same signature have the same type
TypeOf(fn) ==
    IF fn.kind = "func"
    THEN [kind |-> "func", ins |-> fn.ins, outs |-> fn.outs, variadic |-> fn.variadic]
    ELSE [kind |-> fn.kind, ins |-> <<>>, outs |-> <<>>, variadic |-> FALSE]

inputs(fnT) == fnT.ins

outputs(fnT) == fnT.outs

isType(T, in) == in = T

\* the index of the first element of a sequence satisfying a test, 0 if none
FirstIndex(s, Test(_)) ==
    IF \E i \in 1..Len(s) : Test(s[i])
    THEN CHOOSE i \in 1..Len(s) : Test(s[i]) /\ \A j \in 1..(i - 1) : ~Test(s[j])
    ELSE 0

\* engine.go getPosOfType, 1-based; 0 stands for the code's -1
getPosOfType(T, in) == LET IsT(t) == isType(T, t) IN FirstIndex(in, IsT)

RECURSIVE Join(_, _)
Join(strs, sep) ==
    IF Len(strs) = 0 THEN ""
    ELSE IF Len(strs) = 1 THEN strs[1]
    ELSE strs[1] \o sep \o Join(Tail(strs), sep)

\* reflect.Type.String() of a function type, without the leading "func"
SignatureString(fnT) ==
    "(" \o Join(fnT.ins, ", ") \o ")" \o
    (IF Len(fnT.outs) = 0 THEN ""
     ELSE IF Len(fnT.outs) = 1 THEN " " \o fnT.outs[1]
     ELSE " (" \o Join(fnT.outs, ", ") \o ")")

\* engine.go referTo: the function's name followed by its signature
referTo(fn) ==
    IF fn.kind = "func" THEN fn.name \o SignatureString(TypeOf(fn)) ELSE fn.kind

wrapValidationErrorWithInput(badInput, err) ==
    "input " \o referTo(badInput) \o " caused validation error: " \o err

wrapValidationError(err) == "input validation error: " \o err

(***************************************************************************)
(* The per-function validators of Initialize, in the order of its list.    *)
(* Each takes the function's reflect.Type and returns an error or Nil.     *)
(***************************************************************************)
validateAtLeastOneFunction(fns) ==
    IF Len(fns) = 0 THEN "engine must be initialized with at least one function" ELSE Nil

validateTypeFunction(fnT) ==
    IF fnT.kind # "func" THEN "all inputs must be functions" ELSE Nil

validateFunctionHasOutputs(fnT) ==
    IF Len(outputs(fnT)) = 0 THEN "must not have no return type(s)" ELSE Nil

validateFunctionHasAtLeastOneNonErrorValueOutput(fnT) ==
    LET count == Cardinality({i \in 1..Len(outputs(fnT)) : ~isType(ErrorT, outputs(fnT)[i])})
    IN  IF count = 0 THEN "must have at least 1 return value type (excluding error)" ELSE Nil

validateFunctionHasReturnsAtMostOneError(fnT) ==
    LET count == Cardinality({i \in 1..Len(outputs(fnT)) : isType(ErrorT, outputs(fnT)[i])})
    IN  IF count > 1 THEN "must have no more than 1 error return type" ELSE Nil

validateFunctionInputsNotError(fnT) ==
    IF \E i \in 1..Len(inputs(fnT)) : isType(ErrorT, inputs(fnT)[i])
    THEN "must not have input param(s) of type error" ELSE Nil

validateFunctionOutputsNotContext(fnT) ==
    IF \E i \in 1..Len(outputs(fnT)) : isType(ContextT, outputs(fnT)[i])
    THEN "must not have any context.Context return value type(s)" ELSE Nil

validateDistinctInputOutputTypes(fnT) ==
    LET outs == outputs(fnT)
        ins == inputs(fnT)
        bad == {p \in (1..Len(outs)) \X (1..Len(ins)) :
                    /\ ~isType(ErrorT, outs[p[1]])
                    /\ unwrapOptional(outs[p[1]]) = unwrapOptional(ins[p[2]])}
        \* the loops run over the outputs, and for each output over the inputs
        first == CHOOSE p \in bad :
                    \A q \in bad : p[1] < q[1] \/ (p[1] = q[1] /\ p[2] <= q[2])
    IN  IF bad = {} THEN Nil
        ELSE "input type " \o unwrapOptional(ins[first[2]]) \o " is also an output type"

validateFunctionNotVariadic(fnT) ==
    IF fnT.kind = "func" /\ fnT.variadic THEN "must not be a variadic function" ELSE Nil

\* validateSameInputTypes as it would be comparing the parameter types as
\* declared, without unwrapping them
validateSameInputTypes_Raw(fnT) ==
    LET ins == inputs(fnT)
        bad == {i \in 1..Len(ins) : \E j \in 1..(i - 1) : ins[j] = ins[i]}
        first == CHOOSE i \in bad : \A j \in bad : i <= j
    IN  IF bad = {} THEN Nil
        ELSE "function takes the same parameter type " \o ins[first] \o " more than once"

validateSameInputTypes(fnT) ==
    LET ins == inputs(fnT)
        bad == {i \in 1..Len(ins) :
                    \E j \in 1..(i - 1) : unwrapOptional(ins[j]) = unwrapOptional(ins[i])}
        first == CHOOSE i \in bad : \A j \in bad : i <= j
    IN  IF bad = {} THEN Nil
        ELSE "function takes the same parameter type " \o unwrapOptional(ins[first])
                \o " more than once"

\* called by Initialize after validateSameInputTypes; its body is not among
\* the sources, its test (optional.go, Test_EngineInit) gives the end of its
\* message: the Optional type, then " must not be an optional type"
validateNoOutputOptionalTypes(fnT) ==
    LET outs == outputs(fnT)
        IsOpt(t) == isOptional(t)
        first == FirstIndex(outs, IsOpt)
    IN  IF first = 0 THEN Nil
        ELSE outs[first] \o " must not be an optional type"

\* PerFunctionError as it would be with the last validator left out of the list
PerFunctionError_NoOptionalCheck(fnT) ==
    LET errs == << validateTypeFunction(fnT),
                   validateFunctionHasOutputs(fnT),
                   validateFunctionHasAtLeastOneNonErrorValueOutput(fnT),
                   validateFunctionHasReturnsAtMostOneError(fnT),
                   validateFunctionInputsNotError(fnT),
                   validateFunctionOutputsNotContext(fnT),
                   validateDistinctInputOutputTypes(fnT),
                   validateFunctionNotVariadic(fnT),
                   validateSameInputTypes(fnT) >>
        NotNil(x) == x # Nil
        first == FirstIndex(errs, NotNil)
    IN  IF first = 0 THEN Nil ELSE errs[first]

\* the validators of one function in the order of Initialize's list: the
\* first error, or Nil
PerFunctionError(fnT) ==
    LET errs == << validateTypeFunction(fnT),
                   validateFunctionHasOutputs(fnT),
                   validateFunctionHasAtLeastOneNonErrorValueOutput(fnT),
                   validateFunctionHasReturnsAtMostOneError(fnT),
                   validateFunctionInputsNotError(fnT),
                   validateFunctionOutputsNotContext(fnT),
                   validateDistinctInputOutputTypes(fnT),
                   validateFunctionNotVariadic(fnT),
                   validateSameInputTypes(fnT),
                   validateNoOutputOptionalTypes(fnT) >>
        NotNil(x) == x # Nil
        first == FirstIndex(errs, NotNil)
    IN  IF first = 0 THEN Nil ELSE errs[first]

\* the largest number of results, and of parameters, among a list of functions
MaxOutputs(fns) ==
    IF Len(fns) = 0 THEN 0
    ELSE CHOOSE n \in {Len(fns[i].outs) : i \in 1..Len(fns)} :
            \A i \in 1..Len(fns) : Len(fns[i].outs) <= n

MaxInputs(fns) ==
    IF Len(fns) = 0 THEN 0
    ELSE CHOOSE n \in {Len(fns[i].ins) : i \in 1..Len(fns)} :
            \A i \in 1..Len(fns) : Len(fns[i].ins) <= n

(***************************************************************************)
(* The cross-function validators of Initialize.                            *)
(***************************************************************************)
\* the functions of fns, in order, once per return value of type outT
ProvidersOf(outT, fns) ==
    LET hits == {p \in (1..Len(fns)) \X (1..MaxOutputs(fns)) :
                    /\ p[2] <= Len(outputs(TypeOf(fns[p[1]])))
                    /\ outputs(TypeOf(fns[p[1]]))[p[2]] = outT}
        Before(p, q) == p[1] < q[1] \/ (p[1] = q[1] /\ p[2] < q[2])
    IN  [r \in 1..Cardinality(hits) |->
            fns[(CHOOSE p \in hits : Cardinality({q \in hits : Before(q, p)}) = r - 1)[1]]]

\* validateOutputTypesUnique as it would be if it never found a duplicate
validateOutputTypesUnique_Nil(fns) == {}

\* validateOutputTypesUnique ranges over a Go map, so when several output
\* types have more than one provider the one reported is any of them: the
\* set of the errors it can return, empty when it returns nil
validateOutputTypesUnique(fns) ==
    LET outTypes == {outputs(TypeOf(fns[i]))[j] :
                        <<i, j>> \in {p \in (1..Len(fns)) \X (1..MaxOutputs(fns)) :
                                        p[2] <= Len(outputs(TypeOf(fns[p[1]])))}}
                    \ {ErrorT}
        refs(outT) == [r \in 1..Len(ProvidersOf(outT, fns)) |-> referTo(ProvidersOf(outT, fns)[r])]
    IN  {"output value type " \o outT \o " already provided to the engine by "
            \o Join(refs(outT), " AND ") :
         outT \in {t \in outTypes : Len(ProvidersOf(t, fns)) > 1}}

\* cyclicDependencyPath as it would be if the path ended with the function
\* the walk came back to
cyclicDependencyPath_Repeats(pathFuncs) ==
    Join([i \in 1..(Len(pathFuncs) + 1) |->
            referTo(Append(pathFuncs, pathFuncs[1])[i])], " -> ")

cyclicDependencyPath(pathFuncs) ==
    Join([i \in 1..Len(pathFuncs) |-> referTo(pathFuncs[i])], " -> ")

\* the functions checkCyclicDependancies descends into from fnV, in the order
\* of its three loops: outputs of fnV, then fnVs, then the inputs of each
Consumers(fnV, fnVs) ==
    LET outs == outputs(TypeOf(fnV))
        hits == {t \in (1..Len(outs)) \X (1..Len(fnVs)) \X (1..MaxInputs(fnVs)) :
                    /\ ~isType(ErrorT, outs[t[1]])
                    /\ t[3] <= Len(inputs(TypeOf(fnVs[t[2]])))
                    /\ unwrapOptional(inputs(TypeOf(fnVs[t[2]]))[t[3]])
                         = unwrapOptional(outs[t[1]])}
        Before(t, u) ==
            \/ t[1] < u[1]
            \/ t[1] = u[1] /\ t[2] < u[2]
            \/ t[1] = u[1] /\ t[2] = u[2] /\ t[3] < u[3]
    IN  [r \in 1..Cardinality(hits) |->
            fnVs[(CHOOSE t \in hits : Cardinality({u \in hits : Before(u, t)}) = r - 1)[2]]]

RECURSIVE checkCyclicDependancies(_, _, _)
checkCyclicDependancies(fnV, pathFuncs, fnVs) ==
    IF \E i \in 1..Len(pathFuncs) : TypeOf(pathFuncs[i]) = TypeOf(fnV)
    THEN "cyclic dependency detected: " \o cyclicDependencyPath(pathFuncs)
    ELSE LET path == Append(pathFuncs, fnV)
             next == Consumers(fnV, fnVs)
             errs == [r \in 1..Len(next) |-> checkCyclicDependancies(next[r], path, fnVs)]
             NotNil(x) == x # Nil
             first == FirstIndex(errs, NotNil)
         IN  IF first = 0 THEN Nil ELSE errs[first]

\* validateNoCyclicDependancies as it would be if it walked from the first
\* function only
validateNoCyclicDependancies_FirstOnly(fnVs) ==
    IF Len(fnVs) = 0 THEN Nil ELSE checkCyclicDependancies(fnVs[1], <<>>, fnVs)

validateNoCyclicDependancies(fnVs) ==
    LET errs == [i \in 1..Len(fnVs) |-> checkCyclicDependancies(fnVs[i], <<>>, fnVs)]
        NotNil(x) == x # Nil
        first == FirstIndex(errs, NotNil)
    IN  IF first = 0 THEN Nil ELSE errs[first]

(***************************************************************************)
(* The Engine.                                                             *)
(***************************************************************************)
\* the nil *Engine, and equally the zero Engine{}: not initialized
NilEngine == [functions |-> <<>>, outputTypes |-> {}, initialized |-> FALSE]

\* engine.go buildRunFuncs: a map keyed by the function's reflect.Type; each
\* entry is the closure's captured function, positions of its context
\* parameter and of its error result (0 for none).  A later function of the
\* same type overwrites an earlier one.
buildRunFuncs(fns) ==
    [fnT \in {TypeOf(fns[i]) : i \in 1..Len(fns)} |->
        LET last == CHOOSE i \in 1..Len(fns) :
                        /\ TypeOf(fns[i]) = fnT
                        /\ \A j \in (i + 1)..Len(fns) : TypeOf(fns[j]) # fnT
        IN  [fnV |-> fns[last],
             inputs |-> inputs(fnT),
             outputs |-> outputs(fnT),
             ctxPos |-> getPosOfType(ContextT, inputs(fnT)),
             errPos |-> getPosOfType(ErrorT, outputs(fnT))]]

\* the set out built by Initialize's loop: every non-error return type
OutputTypesOf(fns) ==
    {outputs(TypeOf(fns[i]))[j] :
        <<i, j>> \in {p \in (1..Len(fns)) \X (1..MaxOutputs(fns)) :
                        p[2] <= Len(outputs(TypeOf(fns[p[1]])))}} \ {ErrorT}

\* Initialize as it would be if it checked the uniqueness of the output types
\* before the functions one by one
Initialize_UniqueFirst(fns) ==
    LET perFn == [i \in 1..Len(fns) |-> PerFunctionError(TypeOf(fns[i]))]
        NotNil(x) == x # Nil
        firstBad == FirstIndex(perFn, NotNil)
        Fail(err) == [engine |-> NilEngine, err |-> err]
    IN  IF validateAtLeastOneFunction(fns) # Nil
        THEN {Fail(wrapValidationError(validateAtLeastOneFunction(fns)))}
        ELSE IF validateOutputTypesUnique(fns) # {}
        THEN {Fail(wrapValidationError(err)) : err \in validateOutputTypesUnique(fns)}
        ELSE IF firstBad # 0
        THEN {Fail(wrapValidationErrorWithInput(fns[firstBad], perFn[firstBad]))}
        ELSE IF validateNoCyclicDependancies(fns) # Nil
        THEN {Fail(wrapValidationError(validateNoCyclicDependancies(fns)))}
        ELSE {[engine |-> [functions |-> buildRunFuncs(fns),
                           outputTypes |-> OutputTypesOf(fns),
                           initialized |-> TRUE],
               err |-> Nil]}

\* engine.go Initialize: the set of the results (engine, err) it can return
\* for fns; more than one only where validateOutputTypesUnique can report
\* several types
Initialize(fns) ==
    LET perFn == [i \in 1..Len(fns) |-> PerFunctionError(TypeOf(fns[i]))]
        NotNil(x) == x # Nil
        firstBad == FirstIndex(perFn, NotNil)
        Fail(err) == [engine |-> NilEngine, err |-> err]
    IN  IF validateAtLeastOneFunction(fns) # Nil
        THEN {Fail(wrapValidationError(validateAtLeastOneFunction(fns)))}
        ELSE IF firstBad # 0
        THEN {Fail(wrapValidationErrorWithInput(fns[firstBad], perFn[firstBad]))}
        ELSE IF validateOutputTypesUnique(fns) # {}
        THEN {Fail(wrapValidationError(err)) : err \in validateOutputTypesUnique(fns)}
        ELSE IF validateNoCyclicDependancies(fns) # Nil
        THEN {Fail(wrapValidationError(validateNoCyclicDependancies(fns)))}
        ELSE {[engine |-> [functions |-> buildRunFuncs(fns),
                           outputTypes |-> OutputTypesOf(fns),
                           initialized |-> TRUE],
               err |-> Nil]}

(***************************************************************************)
(* Run.  The functions, provided inputs and result types the model draws   *)
(* its runs from.                                                          *)
(***************************************************************************)
mkB == Func("mkB", <<"A">>, <<"B">>)

mkBe == Func("mkBe", <<ContextT, "A">>, <<"B", ErrorT>>)

mkC == Func("mkC", <<"B">>, <<"C", ErrorT>>)

mkCo == Func("mkCo", <<Optional("B"), "E">>, <<"C">>)

mkD == Func("mkD", <<ContextT, "C">>, <<"D", ErrorT>>)

mkDo == Func("mkDo", <<"E", Optional("C")>>, <<"D">>)

mkCD == Func("mkCD", <<"B">>, <<"C", "D">>)

mkA == Func("mkA", <<"C">>, <<"A", ErrorT>>)

\* its body is <-ctx.Done() and then return value, nil
mkBw == Func("mkBw", <<ContextT, "A">>, <<"B", ErrorT>>)

\* declared to return an Optional
mkBo == Func("mkBo", <<"A">>, <<Optional("B"), ErrorT>>)

Pool == <<mkB, mkBe, mkC, mkCo, mkD, mkDo, mkCD, mkA, mkBw, mkBo>>

\* the user functions whose body blocks until ctx is done and then returns
\* its value and a nil error; every other one returns at once, and returns
\* a nil or a non-nil error when it has an error result
WaitsForContext == {"mkBw"}

\* the argument lists of Initialize that the runs start from.  The engine
\* is a map keyed by the function's type and Run ranges over that map, so a
\* Run depends on which functions were registered and not on their order:
\* the lists are taken in the order of Pool.
Registrations ==
    {[i \in 1..Len(idx) |-> Pool[idx[i]]] :
        idx \in {s \in UNION {[1..n -> 1..Len(Pool)] : n \in 0..MaxFns} :
                    \A i \in 1..(Len(s) - 1) : s[i] <= s[i + 1]}}

ProvidedValues ==
    {Plain("A", "a"), Plain("E", "e"), Plain("B", "b"),
     OptionalValue("A", "a", TRUE), OptionalValue("A", "", FALSE)}

\* an argument of Initialize that is not a function
notAFunction ==
    [name |-> "notAFunction", kind |-> "string", ins |-> <<>>, outs |-> <<>>,
     variadic |-> FALSE]

\* a variadic function declared to return an Optional
mkBov ==
    [name |-> "mkBov", kind |-> "func", ins |-> <<"A">>, outs |-> <<Optional("B")>>,
     variadic |-> TRUE]

\* functions that break one rule of Initialize each
mkNone == Func("mkNone", <<"A">>, <<>>)

mkErr == Func("mkErr", <<ContextT, "A">>, <<ErrorT>>)

mkBee == Func("mkBee", <<ContextT, "A">>, <<"B", ErrorT, ErrorT>>)

mkBerr == Func("mkBerr", <<ErrorT>>, <<"B", ErrorT>>)

mkCtx == Func("mkCtx", <<"B">>, <<ContextT, ErrorT>>)

\* func(context.Context, ...A) (B, error): the last parameter is a slice
mkBv ==
    [name |-> "mkBv", kind |-> "func", ins |-> <<ContextT, "[]A">>,
     outs |-> <<"B", ErrorT>>, variadic |-> TRUE]

mkBao == Func("mkBao", <<"A", Optional("A")>>, <<"B">>)

mkAa == Func("mkAa", <<"A">>, <<"A", ErrorT>>)

mkAoa == Func("mkAoa", <<Optional("A")>>, <<"A", ErrorT>>)

mkAao == Func("mkAao", <<"A">>, <<Optional("A"), ErrorT>>)

\* the same type returned twice by one function
mkBB == Func("mkBB", <<"A">>, <<"B", "B">>)

\* with mkB, a cycle of two functions
mkAb == Func("mkAb", <<"B">>, <<"A", ErrorT>>)

\* takes a type and a type computed from it: with mkB and mkC, a diamond
mkDbc == Func("mkDbc", <<"B", "C">>, <<"D">>)

\* the arguments the calls of Initialize are drawn from: the functions of
\* Pool and arguments that Initialize rejects on their own
InitPool ==
    {Pool[i] : i \in 1..Len(Pool)}
        \cup {notAFunction, mkBov, mkNone, mkErr, mkBee, mkBerr, mkCtx, mkBv, mkBao,
              mkAa, mkAoa, mkAao, mkBB, mkAb, mkDbc}

\* the argument lists of Initialize, in every order
InitRegistrations == UNION {[1..n -> InitPool] : n \in 0..MaxFns}

\* the provided... argument lists of Run
ProvidedLists == UNION {[1..n -> ProvidedValues] : n \in 0..MaxProvided}

\* the error a user function returns when it fails
UserError(fnV) == "error from " \o fnV.name

\* what the user function fnV returns when called with ins: every result
\* value records the function and the arguments it was computed from (the
\* test functions concatenate their arguments the same way); a result of an
\* Optional type has IsSet = set; the error result is err
UserCall(fnV, ins, set, err) ==
    LET shown == [i \in 1..Len(ins) |->
                    IF ins[i].type = ContextT THEN "ctx"
                    ELSE IF ins[i].IsSet THEN ins[i].Val ELSE "unset"]
        val == fnV.name \o "(" \o Join(shown, ",") \o ")"
    IN  [j \in 1..Len(fnV.outs) |->
            IF isType(ErrorT, fnV.outs[j])
            THEN [type |-> ErrorT, Val |-> err, IsSet |-> TRUE]
            ELSE IF isOptional(fnV.outs[j])
            THEN [type |-> fnV.outs[j], Val |-> val, IsSet |-> set]
            ELSE [type |-> fnV.outs[j], Val |-> val, IsSet |-> TRUE]]

VARIABLES
    fns,             \* the arguments handed to Initialize
    initErr,         \* the error Initialize returned, Nil if none
    e,               \* the *Engine Initialize returned, handed to Run
    other,           \* a second Run of e that is in progress: its locals
    provided,        \* the provided inputs handed to Run
    runPc,           \* where Run is: "start", "wait" (in eg.Wait), "returned", "panic"
    result,          \* what Run returned: result type, values, error
    storage,         \* the sync.Map: reflect.Type -> reflect.Value
    notifiers,       \* the channel of each output type: "open" or "closed"
    ctxErr,          \* ctx.Err() of the errgroup's context, Nil until it is done
    callerCancelled, \* the caller's context was cancelled while ctx was not done
    blockedAtCancel, \* the functions blocked on ctx.Done() in their user code then
    egErr,           \* the errgroup's first error, Nil if none
    pc,              \* where each function's goroutine is
    pos,             \* its loop index: over inputs, then over outputs
    ins,             \* the arguments it has resolved so far
    outValues,       \* what its user function returned
    ret,             \* the error its closure returned
    called,          \* the functions whose user function was called (fnV.Call)
    skipped          \* the functions that took the !ok branch of loadValue

vars == <<fns, initErr, e, other, provided, runPc, result, storage, notifiers, ctxErr,
          callerCancelled, blockedAtCancel, egErr, pc, pos, ins, outValues, ret, called, skipped>>

Canceled == "context canceled"

DeadlineExceeded == "context deadline exceeded"

\* the runFunc of each function of the engine, by the function's name
Tasks == {e.functions[fnT].fnV.name : fnT \in DOMAIN e.functions}

RunFuncOf(f) ==
    e.functions[CHOOSE fnT \in DOMAIN e.functions : e.functions[fnT].fnV.name = f]

\* the non-error output types of the function f of the engine
OutputsOf(f) == {RunFuncOf(f).outputs[j] : j \in 1..Len(RunFuncOf(f).outputs)} \ {ErrorT}

NoResult == [R |-> "", out |-> <<>>, err |-> Nil]

\* there is no second Run
NoOtherRun == [runPc |-> "none"]

Init ==
    /\ fns \in Registrations
    /\ \E r \in Initialize(fns) : e = r.engine /\ initErr = r.err
    /\ other = NoOtherRun
    /\ provided \in ProvidedLists
    /\ runPc = "start"
    /\ result = NoResult
    /\ storage = <<>>
    /\ notifiers = <<>>
    /\ ctxErr = Nil
    /\ callerCancelled = FALSE
    /\ blockedAtCancel = {}
    /\ egErr = Nil
    /\ pc = [f \in Tasks |-> "idle"]
    /\ pos = [f \in Tasks |-> 0]
    /\ ins = [f \in Tasks |-> <<>>]
    /\ outValues = [f \in Tasks |-> <<>>]
    /\ ret = [f \in Tasks |-> Nil]
    /\ called = {}
    /\ skipped = {}

(***************************************************************************)
(* Initialize on its own: the program is about to call Initialize(fns...), *)
(* then it has the engine and the error.                                   *)
(***************************************************************************)
InitInit ==
    /\ fns \in InitRegistrations
    /\ e = NilEngine
    /\ other = NoOtherRun
    /\ initErr = Nil
    /\ provided = <<>>
    /\ runPc = "init"
    /\ result = NoResult
    /\ storage = <<>>
    /\ notifiers = <<>>
    /\ ctxErr = Nil
    /\ callerCancelled = FALSE
    /\ blockedAtCancel = {}
    /\ egErr = Nil
    /\ pc = <<>> /\ pos = <<>> /\ ins = <<>> /\ outValues = <<>> /\ ret = <<>>
    /\ called = {}
    /\ skipped = {}

CallInitialize ==
    /\ runPc = "init"
    /\ \E r \in Initialize(fns) : e' = r.engine /\ initErr' = r.err
    /\ runPc' = "initialized"
    /\ UNCHANGED <<fns, other, provided, result, storage, notifiers, ctxErr, callerCancelled,
                   blockedAtCancel, egErr, pc, pos, ins, outValues, ret, called, skipped>>

InitNext == CallInitialize

InitSpec == InitInit /\ [][InitNext]_vars

(***************************************************************************)
(* Run before the goroutines: the initialized check, validateProvided,     *)
(* the storage, the notifiers, eg.Go for every function.                   *)
(***************************************************************************)
\* validateProvided as it would be without the check against the output types
validateProvided_NoOutputCheck(prov, outs) ==
    LET errAt(i) ==
            IF \E j \in 1..(i - 1) : prov[j].type = prov[i].type
            THEN "duplicate provided input type: " \o prov[i].type
            ELSE Nil
        errs == [i \in 1..Len(prov) |-> errAt(i)]
        NotNil(x) == x # Nil
        first == FirstIndex(errs, NotNil)
    IN  IF first = 0 THEN Nil ELSE errs[first]

\* validateProvided as it would be without the check for duplicates
validateProvided_NoDuplicateCheck(prov, outs) ==
    LET errAt(i) ==
            IF prov[i].type \in outs
            THEN "provided input type matches function output type: " \o prov[i].type
            ELSE Nil
        errs == [i \in 1..Len(prov) |-> errAt(i)]
        NotNil(x) == x # Nil
        first == FirstIndex(errs, NotNil)
    IN  IF first = 0 THEN Nil ELSE errs[first]

\* engine.go validateProvided: the error of the first provided input whose
\* type was seen before or is in outputs (the engine's outputTypes), or Nil
validateProvided(prov, outs) ==
    LET errAt(i) ==
            IF \E j \in 1..(i - 1) : prov[j].type = prov[i].type
            THEN "duplicate provided input type: " \o prov[i].type
            ELSE IF prov[i].type \in outs
            THEN "provided input type matches function output type: " \o prov[i].type
            ELSE Nil
        errs == [i \in 1..Len(prov) |-> errAt(i)]
        NotNil(x) == x # Nil
        first == FirstIndex(errs, NotNil)
    IN  IF first = 0 THEN Nil ELSE errs[first]

\* Run's loop over provided: each input is stored under its own reflect.Type,
\* a later input of the same type replacing an earlier one
StoreProvided(prov) ==
    [t \in {prov[i].type : i \in 1..Len(prov)} |->
        prov[CHOOSE i \in 1..Len(prov) :
                /\ prov[i].type = t
                /\ \A j \in (i + 1)..Len(prov) : prov[j].type # t]]

\* Run's loop over e.outputTypes: one open channel per output type
MakeNotifiers(outs) == [outT \in outs |-> "open"]

Returned(err) ==
    /\ runPc' = "returned"
    /\ result' = [R |-> "", out |-> <<>>, err |-> err]
    /\ UNCHANGED <<fns, other, initErr, e, provided, storage, notifiers, ctxErr, callerCancelled, blockedAtCancel, egErr,
                   pc, pos, ins, outValues, ret, called, skipped>>

\* RunNotInitialized as it would be if Run returned nil for such an engine
RunNotInitialized_ReturnsNil ==
    /\ runPc = "start"
    /\ ~e.initialized
    /\ Returned(Nil)

RunNotInitialized ==
    /\ runPc = "start"
    /\ ~e.initialized
    /\ Returned("error running engine that has not been initialized")

RunInvalidProvided ==
    /\ runPc = "start"
    /\ e.initialized
    /\ validateProvided(provided, e.outputTypes) # Nil
    /\ Returned(validateProvided(provided, e.outputTypes))

\* every eg.Go has started its goroutine; none has run yet
RunStart ==
    /\ runPc = "start"
    /\ e.initialized
    /\ validateProvided(provided, e.outputTypes) = Nil
    /\ storage' = StoreProvided(provided)
    /\ notifiers' = MakeNotifiers(e.outputTypes)
    /\ pc' = [f \in Tasks |-> "loop"]
    /\ pos' = [f \in Tasks |-> 1]
    /\ runPc' = "wait"
    /\ UNCHANGED <<fns, other, initErr, e, provided, result, ctxErr, callerCancelled, blockedAtCancel, egErr, ins,
                   outValues, ret, called, skipped>>

(***************************************************************************)
(* The context and the errgroup.                                           *)
(***************************************************************************)
\* the goroutines blocked in waitForSignal's select on the channel of outT
ParkedOn(outT) ==
    {f \in Tasks : /\ pc[f] = "parked"
                   /\ unwrapOptional(RunFuncOf(f).inputs[pos[f]]) = outT}

\* closing ctx.Done() makes every goroutine blocked in a select take that case
CancelCtx(err) ==
    /\ ctxErr' = err
    /\ pc' = [f \in Tasks |-> IF pc[f] = "parked" THEN "cancelled" ELSE pc[f]]

\* the caller's context is cancelled, or its deadline passes, during Run.
\* Once ctx is done a cancellation by the caller changes nothing.
CallerCancel ==
    /\ runPc = "wait"
    /\ ctxErr = Nil
    /\ \E err \in {Canceled, DeadlineExceeded} : CancelCtx(err)
    /\ callerCancelled' = TRUE
    /\ blockedAtCancel' = {f \in Tasks : pc[f] = "calling" /\ f \in WaitsForContext}
    /\ UNCHANGED <<fns, other, initErr, e, provided, runPc, result, storage, notifiers, egErr, pos, ins,
                   outValues, ret, called, skipped>>

\* Return as it would be with a plain errgroup.Group, whose errors cancel nothing
Return_NoCancel(f, err) ==
    /\ ret' = [ret EXCEPT ![f] = err]
    /\ egErr' = IF err # Nil /\ egErr = Nil THEN err ELSE egErr
    /\ ctxErr' = ctxErr
    /\ pc' = [pc EXCEPT ![f] = "done"]

\* Return as it would be if the errgroup kept the last error, not the first
Return_LastErrorWins(f, err) ==
    /\ ret' = [ret EXCEPT ![f] = err]
    /\ egErr' = IF err # Nil THEN err ELSE egErr
    /\ IF err # Nil /\ ctxErr = Nil
       THEN /\ ctxErr' = Canceled
            /\ pc' = [g \in Tasks |->
                        IF g = f THEN "done"
                        ELSE IF pc[g] = "parked" THEN "cancelled" ELSE pc[g]]
       ELSE /\ ctxErr' = ctxErr
            /\ pc' = [pc EXCEPT ![f] = "done"]

\* the closure of f returns err to the errgroup's goroutine: the first
\* non-nil error is kept and cancels ctx (errOnce); then wg.Done()
Return(f, err) ==
    /\ ret' = [ret EXCEPT ![f] = err]
    /\ IF err # Nil /\ egErr = Nil
       THEN /\ egErr' = err
            /\ IF ctxErr = Nil
               THEN /\ ctxErr' = Canceled
                    /\ pc' = [g \in Tasks |->
                                IF g = f THEN "done"
                                ELSE IF pc[g] = "parked" THEN "cancelled" ELSE pc[g]]
               ELSE /\ ctxErr' = ctxErr
                    /\ pc' = [pc EXCEPT ![f] = "done"]
       ELSE /\ egErr' = egErr
            /\ ctxErr' = ctxErr
            /\ pc' = [pc EXCEPT ![f] = "done"]

(***************************************************************************)
(* The closure of one function (buildRunFuncs), step by step.              *)
(***************************************************************************)
\* the loop over inputs is at its context parameter
BindContext(f) ==
    LET rf == RunFuncOf(f) IN
    /\ pc[f] = "loop"
    /\ pos[f] <= Len(rf.inputs)
    /\ pos[f] = rf.ctxPos
    /\ ins' = [ins EXCEPT ![f] = Append(@, CtxValue)]
    /\ pos' = [pos EXCEPT ![f] = @ + 1]
    /\ UNCHANGED <<fns, other, initErr, e, provided, runPc, result, storage, notifiers, ctxErr,
                   callerCancelled, blockedAtCancel, egErr, pc, outValues, ret, called, skipped>>

\* the input the loop of f is at needs waitForSignal
AtInput(f) ==
    /\ pc[f] = "loop"
    /\ pos[f] <= Len(RunFuncOf(f).inputs)
    /\ pos[f] # RunFuncOf(f).ctxPos

InputType(f) == RunFuncOf(f).inputs[pos[f]]

\* waitForSignal: no channel for the unwrapped input type, return nil
WaitNoNotifier(f) ==
    /\ AtInput(f)
    /\ unwrapOptional(InputType(f)) \notin DOMAIN notifiers
    /\ pc' = [pc EXCEPT ![f] = "load"]
    /\ UNCHANGED <<fns, other, initErr, e, provided, runPc, result, storage, notifiers, ctxErr,
                   callerCancelled, blockedAtCancel, egErr, pos, ins, outValues, ret, called, skipped>>

\* waitForSignal: select finds ctx.Done() ready and takes it (when the
\* channel is ready too, select takes either); the closure returns ctx.Err()
WaitCtxDone(f) ==
    /\ AtInput(f)
    /\ unwrapOptional(InputType(f)) \in DOMAIN notifiers
    /\ ctxErr # Nil
    /\ Return(f, ctxErr)
    /\ UNCHANGED <<fns, other, initErr, e, provided, runPc, result, storage, notifiers, callerCancelled, blockedAtCancel,
                   pos, ins, outValues, called, skipped>>

\* waitForSignal: select finds the channel closed and takes it
WaitNotified(f) ==
    /\ AtInput(f)
    /\ unwrapOptional(InputType(f)) \in DOMAIN notifiers
    /\ notifiers[unwrapOptional(InputType(f))] = "closed"
    /\ pc' = [pc EXCEPT ![f] = "load"]
    /\ UNCHANGED <<fns, other, initErr, e, provided, runPc, result, storage, notifiers, ctxErr,
                   callerCancelled, blockedAtCancel, egErr, pos, ins, outValues, ret, called, skipped>>

\* WaitBlock as it would be if waitForSignal returned instead of blocking
WaitBlock_Proceeds(f) ==
    /\ AtInput(f)
    /\ unwrapOptional(InputType(f)) \in DOMAIN notifiers
    /\ notifiers[unwrapOptional(InputType(f))] = "open"
    /\ ctxErr = Nil
    /\ pc' = [pc EXCEPT ![f] = "load"]
    /\ UNCHANGED <<fns, other, initErr, e, provided, runPc, result, storage, notifiers, ctxErr,
                   callerCancelled, blockedAtCancel, egErr, pos, ins, outValues, ret, called, skipped>>

\* waitForSignal: neither case is ready, the goroutine blocks in select
WaitBlock(f) ==
    /\ AtInput(f)
    /\ unwrapOptional(InputType(f)) \in DOMAIN notifiers
    /\ notifiers[unwrapOptional(InputType(f))] = "open"
    /\ ctxErr = Nil
    /\ pc' = [pc EXCEPT ![f] = "parked"]
    /\ UNCHANGED <<fns, other, initErr, e, provided, runPc, result, storage, notifiers, ctxErr,
                   callerCancelled, blockedAtCancel, egErr, pos, ins, outValues, ret, called, skipped>>

\* WaitCancelled as it would be if waitForSignal's ctx.Done() case returned nil
WaitCancelled_Proceeds(f) ==
    /\ pc[f] = "cancelled"
    /\ pc' = [pc EXCEPT ![f] = "load"]
    /\ UNCHANGED <<fns, other, initErr, e, provided, runPc, result, storage, notifiers, ctxErr,
                   callerCancelled, blockedAtCancel, egErr, pos, ins, outValues, ret, called, skipped>>

\* a goroutine woken from select by ctx.Done() returns ctx.Err()
WaitCancelled(f) ==
    /\ pc[f] = "cancelled"
    /\ Return(f, ctxErr)
    /\ UNCHANGED <<fns, other, initErr, e, provided, runPc, result, storage, notifiers, callerCancelled, blockedAtCancel,
                   pos, ins, outValues, called, skipped>>

\* loadValue as it would be if an Optional input were looked up like a
\* required one
loadValue_OptionalAbsentSkips(store, inT) ==
    LET inTU == unwrapOptional(inT) IN
    IF inTU \notin DOMAIN store
    THEN [v |-> Zero(inT), ok |-> FALSE]
    ELSE IF isOptional(inT)
         THEN [v |-> newOptional(inT, store[inTU]), ok |-> TRUE]
         ELSE [v |-> store[inTU], ok |-> TRUE]

\* loadValue as it would be if an absent required input were the zero value
loadValue_ZeroWhenAbsent(store, inT) ==
    LET inTU == unwrapOptional(inT) IN
    IF inTU \notin DOMAIN store
    THEN [v |-> Zero(inT), ok |-> TRUE]
    ELSE IF isOptional(inT)
         THEN [v |-> newOptional(inT, store[inTU]), ok |-> TRUE]
         ELSE [v |-> store[inTU], ok |-> TRUE]

\* engine.go loadValue: the value and ok
loadValue(store, inT) ==
    LET inTU == unwrapOptional(inT) IN
    IF inTU \notin DOMAIN store
    THEN IF isOptional(inT)
         THEN [v |-> Zero(inT), ok |-> TRUE]
         ELSE [v |-> Zero(inT), ok |-> FALSE]
    ELSE IF isOptional(inT)
         THEN [v |-> newOptional(inT, store[inTU]), ok |-> TRUE]
         ELSE [v |-> store[inTU], ok |-> TRUE]

\* loadValue found the input: it is appended to ins
LoadValue(f) ==
    /\ pc[f] = "load"
    /\ loadValue(storage, InputType(f)).ok
    /\ ins' = [ins EXCEPT ![f] = Append(@, loadValue(storage, InputType(f)).v)]
    /\ pos' = [pos EXCEPT ![f] = @ + 1]
    /\ pc' = [pc EXCEPT ![f] = "loop"]
    /\ UNCHANGED <<fns, other, initErr, e, provided, runPc, result, storage, notifiers, ctxErr,
                   callerCancelled, blockedAtCancel, egErr, outValues, ret, called, skipped>>

\* the index of the first non-error output at or after i, 0 if none
NextOutput(outs, i) ==
    IF \E j \in i..Len(outs) : ~isType(ErrorT, outs[j])
    THEN CHOOSE j \in i..Len(outs) :
            /\ ~isType(ErrorT, outs[j])
            /\ \A k \in i..(j - 1) : isType(ErrorT, outs[k])
    ELSE 0

\* LoadSkip as it would be if the !ok branch stored zero values for the
\* outputs before closeNotifiers
LoadSkip_StoresZero(f) ==
    /\ pc[f] = "load"
    /\ ~loadValue(storage, InputType(f)).ok
    /\ skipped' = skipped \cup {f}
    /\ storage' = [k \in DOMAIN storage \cup (OutputsOf(f)) |->
                        IF k \in OutputsOf(f) THEN [type |-> k, Val |-> "", IsSet |-> TRUE]
                        ELSE storage[k]]
    /\ pos' = [pos EXCEPT ![f] = NextOutput(RunFuncOf(f).outputs, 1)]
    /\ pc' = [pc EXCEPT ![f] = "close"]
    /\ UNCHANGED <<fns, other, initErr, e, provided, runPc, result, notifiers, ctxErr,
                   callerCancelled, blockedAtCancel, egErr, ins, outValues, ret, called>>

\* LoadSkip as it would be if the !ok branch returned nil without closeNotifiers
LoadSkip_NoClose(f) ==
    /\ pc[f] = "load"
    /\ ~loadValue(storage, InputType(f)).ok
    /\ skipped' = skipped \cup {f}
    /\ pc' = [pc EXCEPT ![f] = "done"]
    /\ UNCHANGED <<fns, other, initErr, e, provided, runPc, result, storage, notifiers, ctxErr,
                   callerCancelled, blockedAtCancel, egErr, pos, ins, outValues, ret, called>>

\* loadValue did not find the input: the function is skipped, what is left is
\* closeNotifiers and return nil
LoadSkip(f) ==
    /\ pc[f] = "load"
    /\ ~loadValue(storage, InputType(f)).ok
    /\ skipped' = skipped \cup {f}
    /\ pos' = [pos EXCEPT ![f] = NextOutput(RunFuncOf(f).outputs, 1)]
    /\ pc' = [pc EXCEPT ![f] = "close"]
    /\ UNCHANGED <<fns, other, initErr, e, provided, runPc, result, storage, notifiers, ctxErr,
                   callerCancelled, blockedAtCancel, egErr, ins, outValues, ret, called>>

\* Call as it would be if the engine let one user function run at a time
Call_OneAtATime(f) ==
    /\ pc[f] = "loop"
    /\ pos[f] > Len(RunFuncOf(f).inputs)
    /\ \A g \in Tasks : pc[g] # "calling"
    /\ called' = called \cup {f}
    /\ pc' = [pc EXCEPT ![f] = "calling"]
    /\ UNCHANGED <<fns, other, initErr, e, provided, runPc, result, storage, notifiers, ctxErr,
                   callerCancelled, blockedAtCancel, egErr, pos, ins, outValues, ret, skipped>>

\* all inputs are resolved: fnV.Call(ins) enters the user function
Call(f) ==
    /\ pc[f] = "loop"
    /\ pos[f] > Len(RunFuncOf(f).inputs)
    /\ called' = called \cup {f}
    /\ pc' = [pc EXCEPT ![f] = "calling"]
    /\ UNCHANGED <<fns, other, initErr, e, provided, runPc, result, storage, notifiers, ctxErr,
                   callerCancelled, blockedAtCancel, egErr, pos, ins, outValues, ret, skipped>>

\* engine.go getError
getError(outVals, errPos) ==
    IF errPos # 0 /\ outVals[errPos].Val # Nil THEN outVals[errPos].Val ELSE Nil

\* CallReturns as it would be if closeNotifiers came before storeOutputs: the
\* channels are closed while nothing is stored yet
CallReturns_ClosesFirst(f) ==
    LET rf == RunFuncOf(f) IN
    /\ pc[f] = "calling"
    /\ f \in WaitsForContext => ctxErr # Nil
    /\ \E set \in BOOLEAN :
          LET outs == UserCall(rf.fnV, ins[f], set, Nil) IN
          /\ getError(outs, rf.errPos) = Nil
          /\ outValues' = [outValues EXCEPT ![f] = outs]
    /\ pos' = [pos EXCEPT ![f] = NextOutput(rf.outputs, 1)]
    /\ pc' = [pc EXCEPT ![f] = "close"]
    /\ UNCHANGED <<fns, other, initErr, e, provided, runPc, result, storage, notifiers, ctxErr,
                   callerCancelled, blockedAtCancel, egErr, ins, ret, called, skipped>>

\* the user function returns without error, one that waits for ctx only
\* once ctx is done
CallReturns(f) ==
    LET rf == RunFuncOf(f) IN
    /\ pc[f] = "calling"
    /\ f \in WaitsForContext => ctxErr # Nil
    /\ \E set \in BOOLEAN :
          LET outs == UserCall(rf.fnV, ins[f], set, Nil) IN
          /\ getError(outs, rf.errPos) = Nil
          /\ outValues' = [outValues EXCEPT ![f] = outs]
    /\ pos' = [pos EXCEPT ![f] = NextOutput(rf.outputs, 1)]
    /\ pc' = [pc EXCEPT ![f] = "store"]
    /\ UNCHANGED <<fns, other, initErr, e, provided, runPc, result, storage, notifiers, ctxErr,
                   callerCancelled, blockedAtCancel, egErr, ins, ret, called, skipped>>

\* CallFails as it would be if closeNotifiers were deferred, and so ran on
\* the error return too
CallFails_ClosesNotifiers(f) ==
    LET rf == RunFuncOf(f)
        outs == UserCall(rf.fnV, ins[f], TRUE, UserError(rf.fnV)) IN
    /\ pc[f] = "calling"
    /\ f \notin WaitsForContext
    /\ getError(outs, rf.errPos) # Nil
    /\ outValues' = [outValues EXCEPT ![f] = outs]
    /\ Return(f, getError(outs, rf.errPos))
    /\ notifiers' = [outT \in DOMAIN notifiers |->
                        IF outT \in OutputsOf(f) THEN "closed" ELSE notifiers[outT]]
    /\ UNCHANGED <<fns, other, initErr, e, provided, runPc, result, storage, callerCancelled, blockedAtCancel,
                   pos, ins, called, skipped>>

\* the user function returns a non-nil error, which the closure returns
CallFails(f) ==
    LET rf == RunFuncOf(f)
        outs == UserCall(rf.fnV, ins[f], TRUE, UserError(rf.fnV)) IN
    /\ pc[f] = "calling"
    /\ f \notin WaitsForContext
    /\ getError(outs, rf.errPos) # Nil
    /\ outValues' = [outValues EXCEPT ![f] = outs]
    /\ Return(f, getError(outs, rf.errPos))
    /\ UNCHANGED <<fns, other, initErr, e, provided, runPc, result, storage, notifiers, callerCancelled, blockedAtCancel,
                   pos, ins, called, skipped>>

\* sync.Map.Store
Store(store, key, val) ==
    [k \in DOMAIN store \cup {key} |-> IF k = key THEN val ELSE store[k]]

\* engine.go storeOutputs, one iteration that stores
StoreOutput(f) ==
    LET rf == RunFuncOf(f)
        next == NextOutput(rf.outputs, pos[f] + 1) IN
    /\ pc[f] = "store"
    /\ storage' = Store(storage, rf.outputs[pos[f]], outValues[f][pos[f]])
    /\ IF next # 0
       THEN /\ pos' = [pos EXCEPT ![f] = next]
            /\ pc' = pc
       ELSE /\ pos' = [pos EXCEPT ![f] = NextOutput(rf.outputs, 1)]
            /\ pc' = [pc EXCEPT ![f] = "close"]
    /\ UNCHANGED <<fns, other, initErr, e, provided, runPc, result, notifiers, ctxErr, callerCancelled, blockedAtCancel,
                   egErr, ins, outValues, ret, called, skipped>>

\* engine.go closeNotifiers, one iteration that closes: every goroutine blocked
\* in a select on the channel takes that case.  Closing a closed channel, or a
\* nil one (no entry in notifiers), panics.  After the last one the closure
\* returns nil.
CloseNotifier(f) ==
    LET rf == RunFuncOf(f)
        outT == rf.outputs[pos[f]]
        next == NextOutput(rf.outputs, pos[f] + 1) IN
    /\ pc[f] = "close"
    /\ IF outT \notin DOMAIN notifiers \/ notifiers[outT] = "closed"
       THEN /\ runPc' = "panic"
            /\ pc' = [pc EXCEPT ![f] = "panic"]
            /\ UNCHANGED <<notifiers, pos, ret, egErr, ctxErr>>
       ELSE /\ notifiers' = [notifiers EXCEPT ![outT] = "closed"]
            /\ runPc' = runPc
            /\ IF next # 0
               THEN /\ pos' = [pos EXCEPT ![f] = next]
                    /\ pc' = [g \in Tasks |-> IF g \in ParkedOn(outT) THEN "load" ELSE pc[g]]
                    /\ UNCHANGED <<ret, egErr, ctxErr>>
               ELSE /\ pos' = pos
                    /\ ret' = [ret EXCEPT ![f] = Nil]
                    /\ pc' = [g \in Tasks |->
                                IF g = f THEN "done"
                                ELSE IF g \in ParkedOn(outT) THEN "load" ELSE pc[g]]
                    /\ UNCHANGED <<egErr, ctxErr>>
    /\ UNCHANGED <<fns, other, initErr, e, provided, result, storage, callerCancelled, blockedAtCancel, ins, outValues,
                   called, skipped>>

(***************************************************************************)
(* Run after eg.Wait().                                                    *)
(***************************************************************************)
ResultTypes == {"any", "C", "D"}

\* the underlying type of each named type: conversion between two named
\* types needs identical underlying types
Underlying(t) ==
    IF t \in {"A", "B", "E"} THEN "string"
    ELSE IF t \in {"C", "D"} THEN "struct{Value string}"
    ELSE t

\* engine.go convert[T]: the value as a T, and ok
convert(T, v) ==
    IF T = "any" \/ v.type = T
    THEN [v |-> v, ok |-> TRUE]
    ELSE IF Underlying(v.type) = Underlying(T)
    THEN [v |-> [v EXCEPT !.type = T], ok |-> TRUE]
    ELSE [v |-> v, ok |-> FALSE]

\* Collect as it would be without the test e.outputTypes[valV.Type()]
Collect_AllStored(T, store, outs) ==
    [k \in {k \in DOMAIN store : convert(T, store[k]).ok} |-> convert(T, store[k]).v]

\* Run's storage.Range: the stored values whose type is an output type and
\* that convert to T, by storage key (the order of out is the map's)
Collect(T, store, outs) ==
    [k \in {k \in DOMAIN store : store[k].type \in outs /\ convert(T, store[k]).ok} |->
        convert(T, store[k]).v]

\* RunReturnsError as it would be if Run collected the outputs before looking
\* at the error of eg.Wait()
RunReturnsError_Partial ==
    /\ runPc = "wait"
    /\ \A f \in Tasks : pc[f] = "done"
    /\ egErr # Nil
    /\ runPc' = "returned"
    /\ \E T \in ResultTypes :
          result' = [R |-> T, out |-> Collect(T, storage, e.outputTypes), err |-> egErr]
    /\ UNCHANGED <<fns, other, initErr, e, provided, storage, notifiers, ctxErr, callerCancelled, blockedAtCancel, egErr,
                   pc, pos, ins, outValues, ret, called, skipped>>

\* eg.Wait() returns once every goroutine is done; it returns the first error
RunReturnsError ==
    /\ runPc = "wait"
    /\ \A f \in Tasks : pc[f] = "done"
    /\ egErr # Nil
    /\ Returned(egErr)

RunReturnsValues ==
    /\ runPc = "wait"
    /\ \A f \in Tasks : pc[f] = "done"
    /\ egErr = Nil
    /\ runPc' = "returned"
    /\ \E T \in ResultTypes :
          result' = [R |-> T, out |-> Collect(T, storage, e.outputTypes), err |-> Nil]
    /\ UNCHANGED <<fns, other, initErr, e, provided, storage, notifiers, ctxErr, callerCancelled, blockedAtCancel, egErr,
                   pc, pos, ins, outValues, ret, called, skipped>>

\* every step but the caller's cancellation
Progress ==
    \/ RunNotInitialized
    \/ RunInvalidProvided
    \/ RunStart
    \/ \E f \in Tasks : BindContext(f)
    \/ \E f \in Tasks : WaitNoNotifier(f)
    \/ \E f \in Tasks : WaitCtxDone(f)
    \/ \E f \in Tasks : WaitNotified(f)
    \/ \E f \in Tasks : WaitBlock(f)
    \/ \E f \in Tasks : WaitCancelled(f)
    \/ \E f \in Tasks : LoadValue(f)
    \/ \E f \in Tasks : LoadSkip(f)
    \/ \E f \in Tasks : Call(f)
    \/ \E f \in Tasks : CallReturns(f)
    \/ \E f \in Tasks : CallFails(f)
    \/ \E f \in Tasks : StoreOutput(f)
    \/ \E f \in Tasks : CloseNotifier(f)
    \/ RunReturnsError
    \/ RunReturnsValues

Next == Progress \/ CallerCancel

Spec == Init /\ [][Next]_vars

\* the Go scheduler runs every goroutine that can run
FairSpec == Spec /\ WF_vars(Progress)

(***************************************************************************)
(* Two Runs of one engine at once.  All a Run works on besides the engine  *)
(* and its arguments is local to the call: the storage, the notifiers, the *)
(* errgroup with its context and the goroutines it starts.  The variables  *)
(* above are the locals of the Run whose goroutines take the steps; other  *)
(* holds the locals of the second Run, and the scheduler goes from one Run *)
(* to the other at any time.                                               *)
(***************************************************************************)
\* the locals of the Run that is taking steps
RunLocals ==
    [provided |-> provided, runPc |-> runPc, result |-> result, storage |-> storage,
     notifiers |-> notifiers, ctxErr |-> ctxErr, callerCancelled |-> callerCancelled,
     blockedAtCancel |-> blockedAtCancel, egErr |-> egErr, pc |-> pc, pos |-> pos,
     ins |-> ins, outValues |-> outValues, ret |-> ret, called |-> called,
     skipped |-> skipped]

\* the locals of a Run that was just called with the inputs prov
NewRun(prov) ==
    [provided |-> prov, runPc |-> "start", result |-> NoResult, storage |-> <<>>,
     notifiers |-> <<>>, ctxErr |-> Nil, callerCancelled |-> FALSE,
     blockedAtCancel |-> {}, egErr |-> Nil, pc |-> [f \in Tasks |-> "idle"],
     pos |-> [f \in Tasks |-> 0], ins |-> [f \in Tasks |-> <<>>],
     outValues |-> [f \in Tasks |-> <<>>], ret |-> [f \in Tasks |-> Nil],
     called |-> {}, skipped |-> {}]

\* SwitchRun as it would be if the storage were a field of the engine, shared
\* by the Runs
SwitchRun_SharedStorage ==
    /\ other # NoOtherRun
    /\ other' = RunLocals
    /\ provided' = other.provided
    /\ runPc' = other.runPc
    /\ result' = other.result
    /\ storage' = storage
    /\ notifiers' = other.notifiers
    /\ ctxErr' = other.ctxErr
    /\ callerCancelled' = other.callerCancelled
    /\ blockedAtCancel' = other.blockedAtCancel
    /\ egErr' = other.egErr
    /\ pc' = other.pc
    /\ pos' = other.pos
    /\ ins' = other.ins
    /\ outValues' = other.outValues
    /\ ret' = other.ret
    /\ called' = other.called
    /\ skipped' = other.skipped
    /\ UNCHANGED <<fns, initErr, e>>

\* the next steps are those of the other Run
SwitchRun ==
    /\ other # NoOtherRun
    /\ other' = RunLocals
    /\ provided' = other.provided
    /\ runPc' = other.runPc
    /\ result' = other.result
    /\ storage' = other.storage
    /\ notifiers' = other.notifiers
    /\ ctxErr' = other.ctxErr
    /\ callerCancelled' = other.callerCancelled
    /\ blockedAtCancel' = other.blockedAtCancel
    /\ egErr' = other.egErr
    /\ pc' = other.pc
    /\ pos' = other.pos
    /\ ins' = other.ins
    /\ outValues' = other.outValues
    /\ ret' = other.ret
    /\ called' = other.called
    /\ skipped' = other.skipped
    /\ UNCHANGED <<fns, initErr, e>>

\* the engines and the inputs of the two Runs: a chain of two functions the
\* first of which can fail, and a list Initialize refuses; each Run has its
\* own value of A
TwoRunRegistrations == {<<mkBe, mkC>>, <<mkBo>>}

TwoRunProvided == {<<>>, <<Plain("A", "a")>>, <<Plain("A", "a"), Plain("A", "a")>>}

TwoRunOtherProvided == {<<>>, <<Plain("A", "a2")>>}

TwoRunInit ==
    /\ fns \in TwoRunRegistrations
    /\ \E r \in Initialize(fns) : e = r.engine /\ initErr = r.err
    /\ provided \in TwoRunProvided
    /\ runPc = "start"
    /\ result = NoResult
    /\ storage = <<>>
    /\ notifiers = <<>>
    /\ ctxErr = Nil
    /\ callerCancelled = FALSE
    /\ blockedAtCancel = {}
    /\ egErr = Nil
    /\ pc = [f \in Tasks |-> "idle"]
    /\ pos = [f \in Tasks |-> 0]
    /\ ins = [f \in Tasks |-> <<>>]
    /\ outValues = [f \in Tasks |-> <<>>]
    /\ ret = [f \in Tasks |-> Nil]
    /\ called = {}
    /\ skipped = {}
    /\ \E prov \in TwoRunOtherProvided : other = NewRun(prov)

TwoRunNext == Next \/ SwitchRun

TwoRunSpec == TwoRunInit /\ [][TwoRunNext]_vars

(***************************************************************************)
(* Vocabulary of the properties.                                           *)
(***************************************************************************)
\* the positions of the parameters of f that are not its context parameter
Params(f) == {i \in 1..Len(RunFuncOf(f).inputs) : i # RunFuncOf(f).ctxPos}

ParamType(f, i) == RunFuncOf(f).inputs[i]

\* the types f declares as required (non-Optional) parameters
RequiredTypes(f) == {ParamType(f, i) : i \in {j \in Params(f) : ~isOptional(ParamType(f, j))}}

\* the unwrapped types of all parameters of f, Optional ones included
ConsumedTypes(f) == {unwrapOptional(ParamType(f, i)) : i \in Params(f)}

\* the closure of f returned the error of its user function
Failed(f) == pc[f] = "done" /\ ret[f] = UserError(RunFuncOf(f).fnV)

\* parameter i of f has been resolved: its argument is in ins
Resolved(f, i) == Len(ins[f]) >= i

\* the parameter at which a skipped function took the !ok branch
SkippedAt(f) == ParamType(f, Len(ins[f]) + 1)

\* the types that can never be in the storage of this Run: not stored by Run,
\* and produced by no function or by one that requires a type of this kind
RECURSIVE MissingAfter(_)
MissingAfter(n) ==
    IF n = 0
    THEN {t \in BaseTypes : t \notin DOMAIN StoreProvided(provided) /\ t \notin e.outputTypes}
    ELSE LET before == MissingAfter(n - 1)
             starved == {f \in Tasks : RequiredTypes(f) \cap before # {}}
         IN  before \cup UNION {OutputsOf(f) : f \in starved}

MissingTypes == MissingAfter(Cardinality(Tasks))

(***************************************************************************)
(* C1  Deadlock freedom: when every goroutine that can run does run and    *)
(* every user function called returns (none stays in its call for ever, as *)
(* one that waits for a context nobody cancels would), Run returns (every  *)
(* task has finished then: eg.Wait returns only after all of them),        *)
(* whether or not the caller ever cancels; no goroutine stays blocked on a *)
(* channel and no close panics.                                            *)
(***************************************************************************)
C1_DeadlockFreedom ==
    \/ <>(runPc = "returned")
    \/ <>[](\E f \in Tasks : pc[f] = "calling")

\* a Run that returned nil without any cancellation although one function was
\* skipped and another one, consuming its output, finished
C1_Witness ==
    /\ runPc = "returned"
    /\ result.err = Nil
    /\ ctxErr = Nil
    /\ \E f \in skipped : \E g \in Tasks \ {f} : ConsumedTypes(g) \cap OutputsOf(f) # {}

(***************************************************************************)
(* C2  Invocation gating: a function whose user function has been called   *)
(* has, for each parameter that is not its context, the channel of the     *)
(* parameter's unwrapped type closed (when there is one, that is when the  *)
(* type is an output type), and for each required parameter T a value      *)
(* stored under T, which is the argument it was called with.               *)
(***************************************************************************)
C2_InvocationGating ==
    \A f \in called : \A i \in Params(f) :
        LET inT == ParamType(f, i) IN
        /\ unwrapOptional(inT) \in DOMAIN notifiers => notifiers[unwrapOptional(inT)] = "closed"
        /\ ~isOptional(inT) => inT \in DOMAIN storage /\ ins[f][i] = storage[inT]

\* a called function with a required parameter of a produced type
C2_Witness ==
    \E f \in called : \E i \in Params(f) :
        ~isOptional(ParamType(f, i)) /\ ParamType(f, i) \in DOMAIN notifiers

(***************************************************************************)
(* C3  Skip protocol: a function that found a required parameter's type    *)
(* absent is never called and stores nothing; once its closure has         *)
(* returned, the channel of each of its non-error outputs is closed and    *)
(* the error it returned is nil.  A Run with skipped functions in which no *)
(* closure returned an error returns a nil error.                          *)
(***************************************************************************)
C3_SkipProtocol ==
    /\ \A f \in skipped :
        /\ f \notin called
        /\ pc[f] \in {"close", "done"}
        /\ ~isOptional(SkippedAt(f)) /\ SkippedAt(f) \notin DOMAIN storage
        /\ \A outT \in OutputsOf(f) : outT \notin DOMAIN storage
        /\ pc[f] = "done" =>
            /\ ret[f] = Nil
            /\ \A outT \in OutputsOf(f) : notifiers[outT] = "closed"
    /\ (runPc = "returned" /\ skipped # {} /\ \A f \in Tasks : ret[f] = Nil)
            => result.err = Nil

\* a Run that returned after a function with two outputs was skipped
C3_Witness ==
    /\ runPc = "returned"
    /\ \E f \in skipped : Cardinality(OutputsOf(f)) > 1 /\ pc[f] = "done"

(***************************************************************************)
(* C4  Skip propagation along required parameters: a function that         *)
(* requires an output type of a skipped function, or a type neither        *)
(* provided nor produced, or (down the chain) a type whose producer is in  *)
(* that case, is never called; and when Run returns a nil error every      *)
(* other function has been called.                                         *)
(***************************************************************************)
C4_SkipPropagation ==
    /\ \A f \in skipped : \A g \in Tasks :
            RequiredTypes(g) \cap OutputsOf(f) # {} => g \notin called
    /\ \A g \in Tasks : RequiredTypes(g) \cap MissingTypes # {} => g \notin called
    /\ (runPc = "returned" /\ result.err = Nil) =>
            /\ \A g \in Tasks : RequiredTypes(g) \cap MissingTypes = {} => g \in called
            /\ \A g \in Tasks : RequiredTypes(g) \cap MissingTypes # {} => g \in skipped

\* a Run that returned nil with a chain of two functions skipped and a third
\* function, which requires no missing type, called
C4_Witness ==
    /\ runPc = "returned"
    /\ result.err = Nil
    /\ \E f, g \in skipped : RequiredTypes(g) \cap OutputsOf(f) # {}
    /\ \E h \in called : RequiredTypes(h) \cap MissingTypes = {}

(***************************************************************************)
(* C5  Skip-monotonicity.  A type U is absent when nothing is stored under *)
(* it and nothing will be: no function produces it, or its channel is      *)
(* closed.  As stated, every transitive consumer of an absent U, through   *)
(* any parameter that unwraps to U, is never called; as amended, every     *)
(* transitive consumer through required parameters.                        *)
(***************************************************************************)
Absent(U) ==
    /\ runPc # "start"
    /\ U \notin DOMAIN storage
    /\ U \in DOMAIN notifiers => notifiers[U] = "closed"

\* the functions reached from the type U in n + 1 steps or fewer along
\* parameters of any kind
RECURSIVE ConsumersAfter(_, _)
ConsumersAfter(U, n) ==
    IF n = 0
    THEN {f \in Tasks : U \in ConsumedTypes(f)}
    ELSE LET before == ConsumersAfter(U, n - 1)
             outs == UNION {OutputsOf(f) : f \in before}
         IN  before \cup {g \in Tasks : ConsumedTypes(g) \cap outs # {}}

TransitiveConsumers(U) == ConsumersAfter(U, Cardinality(Tasks))

\* the same along required parameters only
RECURSIVE RequiredConsumersAfter(_, _)
RequiredConsumersAfter(U, n) ==
    IF n = 0
    THEN {f \in Tasks : U \in RequiredTypes(f)}
    ELSE LET before == RequiredConsumersAfter(U, n - 1)
             outs == UNION {OutputsOf(f) : f \in before}
         IN  before \cup {g \in Tasks : RequiredTypes(g) \cap outs # {}}

RequiredConsumers(U) == RequiredConsumersAfter(U, Cardinality(Tasks))

C6_OptionalParameter ==
    /\ \A f \in skipped : ~isOptional(SkippedAt(f))
    /\ \A f \in Tasks : \A i \in Params(f) :
        (Resolved(f, i) /\ isOptional(ParamType(f, i))) =>
            LET T == unwrapOptional(ParamType(f, i)) IN
            /\ T \in DOMAIN notifiers => notifiers[T] = "closed"
            /\ ins[f][i] = IF T \in DOMAIN storage
                           THEN [type |-> Optional(T), Val |-> storage[T].Val, IsSet |-> TRUE]
                           ELSE [type |-> Optional(T), Val |-> "", IsSet |-> FALSE]
    /\ (runPc = "returned" /\ result.err = Nil) =>
            \A f \in Tasks :
                /\ \E i \in Params(f) : isOptional(ParamType(f, i))
                /\ RequiredTypes(f) \subseteq DOMAIN storage
                => f \in called

\* a function called with an unset Optional whose type's producer was skipped
C6_Witness ==
    \E f \in called : \E i \in Params(f) : \E g \in skipped :
        /\ isOptional(ParamType(f, i))
        /\ unwrapOptional(ParamType(f, i)) \in OutputsOf(g)
        /\ ~ins[f][i].IsSet

(***************************************************************************)
(* C7  If the user function of any function returned a non-nil error, Run  *)
(* returns a non-nil error and no values.                                  *)
(***************************************************************************)
C7_ErrorNoResults ==
    (runPc = "returned" /\ \E f \in Tasks : Failed(f))
        => result.err # Nil /\ result.out = <<>>

\* a Run that returned after a failure with an output of another function in
\* the storage
C7_Witness ==
    /\ runPc = "returned"
    /\ \E f \in Tasks : Failed(f)
    /\ \E k \in DOMAIN storage : k \in e.outputTypes

(***************************************************************************)
(* C8  First error wins: the first non-nil error a closure returns becomes *)
(* the errgroup's error and stays it, and it is what Run returns.  So when *)
(* exactly one user function fails and the caller does not cancel, Run     *)
(* returns that function's error; and Run returns a context error only     *)
(* when the caller's context was cancelled.                                *)
(***************************************************************************)
C8_FirstErrorWins ==
    /\ [][/\ egErr # Nil => egErr' = egErr
          /\ egErr = Nil =>
                \A f \in Tasks : (ret[f] = Nil /\ ret'[f] # Nil) => egErr' = ret'[f]]_vars
    /\ []((runPc = "returned" /\ \E f \in Tasks : pc[f] = "done") => result.err = egErr)
    /\ [](\A f \in Tasks :
            (/\ runPc = "returned"
             /\ ~callerCancelled
             /\ Failed(f)
             /\ \A g \in Tasks \ {f} : ~Failed(g))
            => result.err = UserError(RunFuncOf(f).fnV))
    /\ []((runPc = "returned" /\ result.err \in {Canceled, DeadlineExceeded})
            => callerCancelled)

\* a Run that returned the error of the one function that failed, while
\* another closure returned the cancellation error
C8_Witness ==
    /\ runPc = "returned"
    /\ \E f, g \in Tasks :
        /\ Failed(f)
        /\ ret[g] = Canceled
        /\ result.err = UserError(RunFuncOf(f).fnV)

(***************************************************************************)
(* C9  A function whose user function returned an error has stored none of *)
(* its outputs and closed none of their channels; a function with a        *)
(* parameter, required or Optional, of one of these types never resolves   *)
(* that parameter and is never called, and if its closure has returned it  *)
(* was skipped at an earlier parameter or returned the context's error.    *)
(***************************************************************************)
C9_ConsumersOfFailed ==
    \A f \in Tasks : Failed(f) =>
        /\ \A outT \in OutputsOf(f) : outT \notin DOMAIN storage /\ notifiers[outT] = "open"
        /\ \A g \in Tasks : \A i \in Params(g) :
            unwrapOptional(ParamType(g, i)) \in OutputsOf(f) =>
                /\ g \notin called
                /\ ~Resolved(g, i)
                /\ pc[g] # "load" \/ pos[g] # i
                /\ (pc[g] = "done" /\ g \notin skipped) => ret[g] \in {Canceled, DeadlineExceeded}

\* a consumer of a failed function's output whose closure has returned
C9_Witness ==
    \E f, g \in Tasks :
        /\ Failed(f)
        /\ ConsumedTypes(g) \cap OutputsOf(f) # {}
        /\ pc[g] = "done"
        /\ ret[g] = Canceled

(***************************************************************************)
(* C10  A goroutine is blocked on a channel only while ctx is not done.    *)
(* When ctx is cancelled, by the caller or by the first error, every       *)
(* goroutine blocked on a channel is woken by ctx.Done(), and all it does  *)
(* then is return ctx.Err(): it has not called its user function, has      *)
(* stored no output and closed no channel.                                 *)
(***************************************************************************)
C10_CancelledWaiters ==
    /\ [](\A f \in Tasks :
            /\ pc[f] = "parked" => ctxErr = Nil
            /\ (pc[f] = "cancelled" \/ (pc[f] = "done" /\ ret[f] \in {Canceled, DeadlineExceeded}))
                => /\ ctxErr # Nil
                   /\ f \notin called
                   /\ \A outT \in OutputsOf(f) :
                        outT \notin DOMAIN storage /\ notifiers[outT] = "open")
    /\ [][\A f \in Tasks :
            /\ (pc[f] = "parked" /\ ctxErr' # Nil) => pc'[f] = "cancelled"
            /\ (pc[f] = "cancelled" /\ pc'[f] # "cancelled") =>
                    /\ pc'[f] = "done"
                    /\ ret'[f] = ctxErr
                    /\ storage' = storage
                    /\ notifiers' = notifiers
                    /\ called' = called]_vars

\* a goroutine woken by the cancellation that followed another function's error
C10_Witness ==
    \E f, g \in Tasks : pc[f] = "cancelled" /\ Failed(g) /\ ~callerCancelled

(***************************************************************************)
(* C11  Cancellation scenario: the caller's context fires while a first    *)
(* function, which takes the context, is blocked on it in its user code; a *)
(* second function requires an output of the first; the first one returns  *)
(* its value and a nil error once it has seen the cancellation, and no     *)
(* user function fails.  Then Run returns the context's error, whatever    *)
(* the interleaving.                                                       *)
(***************************************************************************)
C11_CancellationScenario ==
    (/\ runPc = "returned"
     /\ \E f \in blockedAtCancel :
            /\ ret[f] = Nil
            /\ \E g \in Tasks : RequiredTypes(g) \cap OutputsOf(f) # {}
     /\ \A h \in Tasks : ~Failed(h))
    => result.err \in {Canceled, DeadlineExceeded}

(***************************************************************************)
(* C12  Run on a nil engine, or on one that no successful Initialize       *)
(* produced, returns the error "error running engine that has not been     *)
(* initialized" and no result; it starts no task (no storage, no channel,  *)
(* no goroutine) and no user function is called.                           *)
(***************************************************************************)
C12_NotInitialized ==
    ~e.initialized =>
        /\ runPc \in {"start", "returned"}
        /\ storage = <<>> /\ notifiers = <<>>
        /\ \A f \in Tasks : pc[f] = "idle"
        /\ called = {}
        /\ runPc = "returned" =>
              /\ result.err = "error running engine that has not been initialized"
              /\ result.out = <<>>

\* such a Run has returned: Initialize had failed, inputs were provided
C12_Witness ==
    /\ runPc = "returned"
    /\ ~e.initialized
    /\ initErr # Nil
    /\ Len(fns) > 0
    /\ Len(provided) > 0

(***************************************************************************)
(* C13  Provided inputs of the same type, or of a function output type:    *)
(* Run returns an error and no user function is called (no task is         *)
(* started).  With two inputs of the same type T and no input of an output *)
(* type the error is "duplicate provided input type: T"; with an input of  *)
(* an output type T and no two inputs of the same type it is "provided     *)
(* input type matches function output type: T"; with both, it is the one   *)
(* of the first input, in argument order, that repeats an earlier type or  *)
(* has an output type.                                                     *)
(***************************************************************************)
DuplicateAt(i) == \E j \in 1..(i - 1) : provided[j].type = provided[i].type

MatchesOutputAt(i) == provided[i].type \in e.outputTypes

Offending == {i \in 1..Len(provided) : DuplicateAt(i) \/ MatchesOutputAt(i)}

C13_ProvidedChecks ==
    (e.initialized /\ Offending # {}) =>
        /\ runPc \in {"start", "returned"}
        /\ called = {}
        /\ \A f \in Tasks : pc[f] = "idle"
        /\ runPc = "returned" =>
              LET i == CHOOSE k \in Offending : \A l \in Offending : k <= l IN
              /\ result.out = <<>>
              /\ (\A k \in Offending : ~MatchesOutputAt(k)) =>
                    result.err = "duplicate provided input type: " \o provided[i].type
              /\ (\A k \in Offending : ~DuplicateAt(k)) =>
                    result.err = "provided input type matches function output type: "
                                    \o provided[i].type
              /\ result.err =
                    IF DuplicateAt(i)
                    THEN "duplicate provided input type: " \o provided[i].type
                    ELSE "provided input type matches function output type: "
                            \o provided[i].type

\* Run returned the duplicate error for an engine of two functions or more,
\* one of which requires the duplicated type
C13_Witness ==
    /\ runPc = "returned"
    /\ e.initialized
    /\ Cardinality(Tasks) >= 2
    /\ Len(provided) = 2
    /\ provided[1].type = provided[2].type
    /\ provided[1].type \notin e.outputTypes
    /\ \E f \in Tasks : provided[1].type \in RequiredTypes(f)
    /\ result.err = "duplicate provided input type: " \o provided[1].type

(***************************************************************************)
(* C14  The checks of the provided inputs compare unwrapped types: when    *)
(* two provided inputs have the same unwrapped type (T and Optional[T]),   *)
(* or the unwrapped type of a provided input is the unwrapped type of a    *)
(* function output, Run returns the duplicate error, or the error of the   *)
(* input matching an output (naming the type, wrapped or not), and no user *)
(* function is called.                                                     *)
(***************************************************************************)
C14_UnwrappedProvidedChecks ==
    LET dup == \E i, j \in 1..Len(provided) :
                    /\ i < j
                    /\ unwrapOptional(provided[i].type) = unwrapOptional(provided[j].type)
        match == \E i \in 1..Len(provided) : \E t \in e.outputTypes :
                    unwrapOptional(provided[i].type) = unwrapOptional(t)
        T == {unwrapOptional(provided[i].type) : i \in 1..Len(provided)}
                \cup {provided[i].type : i \in 1..Len(provided)}
    IN  (e.initialized /\ (dup \/ match)) =>
            /\ called = {}
            /\ runPc = "returned" =>
                  result.err \in
                      {"duplicate provided input type: " \o t : t \in T} \cup
                      {"provided input type matches function output type: " \o t : t \in T}

(***************************************************************************)
(* C15  Result collection is exact: a Run[R] that returns a nil error      *)
(* returns one element for each output type of the engine that has a value *)
(* in the storage assignable or convertible to R, that value as an R, and  *)
(* nothing else: no provided input, even one convertible to R, and nothing *)
(* for an output of a skipped function.                                    *)
(***************************************************************************)
C15_ResultCollection ==
    (runPc = "returned" /\ e.initialized /\ result.err = Nil) =>
        LET R == result.R
            Converts(t) == R = "any" \/ t = R \/ Underlying(t) = Underlying(R)
        IN  /\ DOMAIN result.out =
                    {t \in e.outputTypes : t \in DOMAIN storage /\ Converts(t)}
            /\ \A t \in DOMAIN result.out :
                    /\ result.out[t].Val = storage[t].Val
                    /\ result.out[t].type = IF R = "any" THEN t ELSE R
            /\ \A i \in 1..Len(provided) : \A t \in DOMAIN result.out :
                    t # provided[i].type /\ result.out[t].Val # provided[i].Val
            /\ \A f \in skipped : OutputsOf(f) \cap DOMAIN result.out = {}

\* Run[C] returned an output of type C; a provided input and an output not
\* convertible to C are in the storage, a function was skipped
C15_Witness ==
    /\ runPc = "returned"
    /\ result.err = Nil
    /\ result.R = "C"
    /\ "C" \in DOMAIN result.out
    /\ Len(provided) > 0
    /\ \E i \in 1..Len(provided) : provided[i].type \in DOMAIN storage
    /\ \E t \in e.outputTypes \cap DOMAIN storage : t \notin DOMAIN result.out
    /\ skipped # {}

(***************************************************************************)
(* C16  A provided Optional[T] with IsSet = true makes T present: no       *)
(* function is skipped for want of its required parameter T, a required    *)
(* parameter T is bound to the unwrapped value and a parameter Optional[T] *)
(* to an Optional holding that value with IsSet = true.                    *)
(***************************************************************************)
C16_ProvidedOptionalSet ==
    e.initialized =>
        \A i \in 1..Len(provided) :
            (isOptional(provided[i].type) /\ provided[i].IsSet) =>
                LET T == unwrapOptional(provided[i].type) IN
                /\ \A f \in skipped : SkippedAt(f) # T
                /\ \A f \in Tasks : \A j \in Params(f) :
                        (Resolved(f, j) /\ unwrapOptional(ParamType(f, j)) = T) =>
                            /\ ins[f][j].Val = provided[i].Val
                            /\ ins[f][j].IsSet

(***************************************************************************)
(* C17  A provided Optional[T] with IsSet = false makes T absent: no       *)
(* function with a required parameter T is ever called, a parameter        *)
(* Optional[T] is bound to an Optional with IsSet = false, and in a Run    *)
(* that returns a nil error every function none of whose required types is *)
(* missing has been called.                                                *)
(***************************************************************************)
C17_ProvidedOptionalUnset ==
    e.initialized =>
        \A i \in 1..Len(provided) :
            (isOptional(provided[i].type) /\ ~provided[i].IsSet) =>
                LET T == unwrapOptional(provided[i].type) IN
                /\ \A f \in called : T \notin RequiredTypes(f)
                /\ \A f \in Tasks : \A j \in Params(f) :
                        (Resolved(f, j) /\ ParamType(f, j) = Optional(T)) => ~ins[f][j].IsSet
                /\ (runPc = "returned" /\ result.err = Nil) =>
                        \A f \in Tasks :
                            RequiredTypes(f) \cap (MissingTypes \cup {T}) = {} => f \in called

(***************************************************************************)
(* Vocabulary of the properties about functions returning an Optional.     *)
(***************************************************************************)
\* the positions of the results of fn that are declared Optional
OptionalOutputs(fn) == {j \in 1..Len(fn.outs) : isOptional(fn.outs[j])}

\* the provided inputs hold every required parameter type of fn
InputsProvided(fn) ==
    \A k \in 1..Len(fn.ins) :
        (fn.ins[k] # ContextT /\ ~isOptional(fn.ins[k])) =>
            \E i \in 1..Len(provided) : provided[i].type = fn.ins[k]

\* the functions registered with the producer p that take T, as a required
\* parameter or as an Optional one
Requiring(T) == {i \in 1..Len(fns) : \E k \in 1..Len(fns[i].ins) : fns[i].ins[k] = T}

(***************************************************************************)
(* C18  Optional output that is set: a function declared to return         *)
(* Optional[T] whose required inputs are provided is called in a Run, and  *)
(* when it returned IsSet = true the bare value is stored under T, the     *)
(* channel of T is closed, and a registered function with a required       *)
(* parameter T is called with that value (Run returning a nil error).      *)
(***************************************************************************)
C18_OptionalOutputSet ==
    runPc = "returned" =>
        \A p \in 1..Len(fns) : \A j \in OptionalOutputs(fns[p]) :
            InputsProvided(fns[p]) =>
                LET T == unwrapOptional(fns[p].outs[j])
                    f == fns[p].name
                IN  /\ result.err = Nil
                    /\ f \in called
                    /\ outValues[f][j].IsSet =>
                          /\ T \in DOMAIN storage
                          /\ storage[T] = Plain(T, outValues[f][j].Val)
                          /\ notifiers[T] = "closed"
                          /\ \A c \in Requiring(T) :
                                LET g == fns[c].name
                                    k == CHOOSE k \in 1..Len(fns[c].ins) : fns[c].ins[k] = T
                                IN  /\ g \in called
                                    /\ ins[g][k] = storage[T]

SameUnwrapped(a, b) ==
    \/ a = b
    \/ \E t \in BaseTypes : {a, b} = {t, Optional(t)}

NonErrorReturns(fn) == {j \in 1..Len(fn.outs) : fn.outs[j] # ErrorT}

ErrorReturns(fn) == {j \in 1..Len(fn.outs) : fn.outs[j] = ErrorT}

IsCallable(fn) == fn.kind = "func"

HasErrorParameter(fn) == \E k \in 1..Len(fn.ins) : fn.ins[k] = ErrorT

HasContextReturn(fn) == \E j \in 1..Len(fn.outs) : fn.outs[j] = ContextT

HasRepeatedParameter(fn) ==
    \E k, l \in 1..Len(fn.ins) : k # l /\ SameUnwrapped(fn.ins[k], fn.ins[l])

TakesOwnReturn(fn) ==
    \E k \in 1..Len(fn.ins) : \E j \in NonErrorReturns(fn) :
        SameUnwrapped(fn.ins[k], fn.outs[j])

\* the rules of C21
WellFormed(fn) ==
    /\ IsCallable(fn)
    /\ ~fn.variadic
    /\ ~HasErrorParameter(fn)
    /\ ~HasContextReturn(fn)
    /\ NonErrorReturns(fn) # {}
    /\ Cardinality(ErrorReturns(fn)) <= 1
    /\ ~HasRepeatedParameter(fn)

\* the functions held by the engine
EngineFunctions == {e.functions[fnT].fnV : fnT \in DOMAIN e.functions}

\* Initialize returned an error and no engine
Rejected == runPc = "initialized" /\ initErr # Nil /\ e = NilEngine

\* Initialize returned an engine and no error
Accepted == runPc = "initialized" /\ initErr = Nil /\ e.initialized

ProducingSlots(fs, T) ==
    {s \in (1..Len(fs)) \X (1..MaxOutputs(fs)) :
        /\ IsCallable(fs[s[1]])
        /\ s[2] \in NonErrorReturns(fs[s[1]])
        /\ SameUnwrapped(fs[s[1]].outs[s[2]], T)}

Edge(fs, i, j) ==
    \E o \in NonErrorReturns(fs[i]) : \E k \in 1..Len(fs[j].ins) :
        SameUnwrapped(fs[i].outs[o], fs[j].ins[k])

\* the j-th is reached from the i-th along at least one and at most n edges
RECURSIVE ReachedWithin(_, _, _, _)
ReachedWithin(fs, i, j, n) ==
    /\ n > 0
    /\ \/ Edge(fs, i, j)
       \/ \E k \in 1..Len(fs) : Edge(fs, i, k) /\ ReachedWithin(fs, k, j, n - 1)

HasCycle(fs) == \E i \in 1..Len(fs) : ReachedWithin(fs, i, i, Len(fs))

\* the walks of the graph without a repeated function whose last function
\* has an edge back to a function of the walk
ClosingWalks(fs) ==
    {w \in UNION {[1..n -> 1..Len(fs)] : n \in 1..Len(fs)} :
        /\ \A a, b \in 1..Len(w) : a # b => w[a] # w[b]
        /\ \A a \in 1..(Len(w) - 1) : Edge(fs, w[a], w[a + 1])
        /\ \E a \in 1..Len(w) : Edge(fs, w[Len(w)], w[a])}

\* err is the error of the cycle check for fs: it names such a walk
IsCyclicError(fs, err) ==
    \E w \in ClosingWalks(fs) :
        err = "input validation error: cyclic dependency detected: "
                \o Join([a \in 1..Len(w) |-> referTo(fs[w[a]])], " -> ")

\* fs passes the checks Initialize makes before the cycle check
PassesEarlierChecks(fs) ==
    /\ Len(fs) >= 1
    /\ \A i \in 1..Len(fs) : PerFunctionError(TypeOf(fs[i])) = Nil
    /\ validateOutputTypesUnique(fs) = {}

(***************************************************************************)
(* C24  Cycle detection is sound and complete: for a list of functions     *)
(* that passes the per-function checks and the uniqueness of producers,    *)
(* Initialize fails with 'cyclic dependency detected' if and only if the   *)
(* dependency graph has a cycle, and returns an engine otherwise (diamonds *)
(* included).                                                              *)
(***************************************************************************)
C24_CycleDetection ==
    (runPc = "initialized" /\ PassesEarlierChecks(fns)) =>
        /\ HasCycle(fns) <=> IsCyclicError(fns, initErr)
        /\ HasCycle(fns) => Rejected
        /\ ~HasCycle(fns) => Accepted

\* Initialize refused a cycle of three functions, naming the walk from the
\* first of them
C24_Witness ==
    /\ Rejected
    /\ fns = <<mkC, mkA, mkB>>
    /\ initErr = "input validation error: cyclic dependency detected: "
                    \o referTo(mkC) \o " -> " \o referTo(mkA) \o " -> " \o referTo(mkB)

Broken(fn) ==
    << ~IsCallable(fn),
       Len(fn.outs) = 0,
       NonErrorReturns(fn) = {},
       Cardinality(ErrorReturns(fn)) > 1,
       HasErrorParameter(fn),
       HasContextReturn(fn),
       TakesOwnReturn(fn),
       fn.variadic,
       HasRepeatedParameter(fn),
       OptionalOutputs(fn) # {} >>

\* for each per-function rule, in their order: the messages that report it
Messages(fn) ==
    << {"all inputs must be functions"},
       {"must not have no return type(s)"},
       {"must have at least 1 return value type (excluding error)"},
       {"must have no more than 1 error return type"},
       {"must not have input param(s) of type error"},
       {"must not have any context.Context return value type(s)"},
       {"input type " \o T \o " is also an output type" : T \in BaseTypes},
       {"must not be a variadic function"},
       {"function takes the same parameter type " \o T \o " more than once" :
            T \in BaseTypes},
       {Optional(T) \o " must not be an optional type" : T \in BaseTypes} >>

BreaksARule(fn) == LET b == Broken(fn) IN \E r \in 1..Len(b) : b[r]

FirstBroken(fn) ==
    LET b == Broken(fn) IN CHOOSE r \in 1..Len(b) : b[r] /\ \A q \in 1..(r - 1) : ~b[q]

\* the error of the uniqueness check for fs: it names a type produced more
\* than once and its producers in the order of the list
IsUniquenessError(fs, err) ==
    \E T \in BaseTypes :
        /\ Cardinality(ProducingSlots(fs, T)) > 1
        /\ \E n \in 2..Cardinality(ProducingSlots(fs, T)) :
            \E s \in [1..n -> ProducingSlots(fs, T)] :
                /\ \A a, b \in 1..n : a < b =>
                        \/ s[a][1] < s[b][1]
                        \/ s[a][1] = s[b][1] /\ s[a][2] < s[b][2]
                /\ n = Cardinality(ProducingSlots(fs, T))
                /\ err = "input validation error: output value type " \o T
                            \o " already provided to the engine by "
                            \o Join([a \in 1..n |-> referTo(fs[s[a][1]])], " AND ")

ProducerOf(T) == CHOOSE f \in Tasks : T \in OutputsOf(f)

\* T gets a value: it is provided, or it is returned by a function all of
\* whose required parameters get one (n bounds the depth of the chain)
RECURSIVE GetsValue(_, _, _)
GetsValue(prov, T, n) ==
    \/ \E i \in 1..Len(prov) : prov[i].type = T
    \/ /\ n > 0
       /\ \E f \in Tasks :
            /\ T \in OutputsOf(f)
            /\ \A R \in RequiredTypes(f) : GetsValue(prov, R, n - 1)

ExpectedCalled(prov) ==
    {f \in Tasks : \A R \in RequiredTypes(f) : GetsValue(prov, R, Cardinality(Tasks))}

\* the value T gets, and the argument handed to a parameter of type inT
RECURSIVE ExpectedValue(_, _), ExpectedArgument(_, _)
ExpectedValue(prov, T) ==
    IF \E i \in 1..Len(prov) : prov[i].type = T
    THEN prov[CHOOSE i \in 1..Len(prov) : prov[i].type = T]
    ELSE LET rf == RunFuncOf(ProducerOf(T))
             j == CHOOSE j \in 1..Len(rf.outputs) : rf.outputs[j] = T
             args == [k \in 1..Len(rf.inputs) |-> ExpectedArgument(prov, rf.inputs[k])]
         IN  UserCall(rf.fnV, args, TRUE, Nil)[j]

ExpectedArgument(prov, inT) ==
    IF inT = ContextT THEN CtxValue
    ELSE IF ~isOptional(inT) THEN ExpectedValue(prov, inT)
    ELSE IF GetsValue(prov, unwrapOptional(inT), Cardinality(Tasks))
    THEN [type |-> inT, Val |-> ExpectedValue(prov, unwrapOptional(inT)).Val, IsSet |-> TRUE]
    ELSE [type |-> inT, Val |-> "", IsSet |-> FALSE]

ExpectedStore(prov) ==
    [T \in {prov[i].type : i \in 1..Len(prov)}
            \cup UNION {OutputsOf(f) : f \in ExpectedCalled(prov)} |->
        ExpectedValue(prov, T)]

\* the values of the store that Run returns for the result type R
ExpectedResult(prov, R) ==
    LET S == ExpectedStore(prov)
        keys == {T \in DOMAIN S :
                    /\ T \in e.outputTypes
                    /\ R = "any" \/ T = R \/ Underlying(T) = Underlying(R)}
    IN  [T \in keys |-> IF R = "any" THEN S[T] ELSE [S[T] EXCEPT !.type = R]]

(***************************************************************************)
(* C28  Scheduling determinism: when no user function returns an error and *)
(* the context is not cancelled, every Run of a given engine with given    *)
(* inputs ends with the same called functions, the same skipped functions, *)
(* the same value store and the same results, whatever the interleaving of *)
(* the goroutines: all four are the ones computed from the engine and the  *)
(* inputs alone.                                                           *)
(***************************************************************************)
C28_SchedulingDeterminism ==
    (/\ runPc = "returned"
     /\ result.err = Nil
     /\ ~callerCancelled
     /\ ctxErr = Nil) =>
        /\ called = ExpectedCalled(provided)
        /\ skipped = Tasks \ ExpectedCalled(provided)
        /\ storage = ExpectedStore(provided)
        /\ result.out = ExpectedResult(provided, result.R)

\* a Run of a chain of two functions and a third one that lacks an input
C28_Witness ==
    /\ runPc = "returned"
    /\ result.err = Nil
    /\ ~callerCancelled
    /\ ctxErr = Nil
    /\ called = {"mkB", "mkC"}
    /\ skipped = {"mkDo"}
    /\ result.R = "C"
    /\ DOMAIN result.out = {"C"}
    /\ result.out["C"].Val = "mkC(mkB(a))"

(***************************************************************************)
(* C29  Registration order does not matter: Initialize accepts a list of   *)
(* functions if and only if it accepts each reordering of it, and then it  *)
(* returns the same engine for all of them (the same map of functions and  *)
(* the same set of output types), so that every Run of one is a Run of the *)
(* other.                                                                  *)
(***************************************************************************)
Reordered(fs, p) == [i \in 1..Len(fs) |-> fs[p[i]]]

C29_RegistrationOrder ==
    runPc = "initialized" =>
        \A p \in Permutations(1..Len(fns)) :
            \A r \in Initialize(Reordered(fns, p)) :
                /\ (r.err = Nil) <=> (initErr = Nil)
                /\ r.engine = e

\* Initialize accepted three functions handed over against their dependencies
C29_Witness ==
    /\ Accepted
    /\ fns = <<mkD, mkC, mkB>>

(***************************************************************************)
(* C30  Independent functions run concurrently.  A function none of whose  *)
(* parameter types is returned by a function of the engine, and whose      *)
(* required parameters are all provided, depends on no other function: it  *)
(* never blocks in waitForSignal, is never skipped, and whenever it has    *)
(* resolved its arguments its call can start, whatever the others are      *)
(* doing.  (That two such calls are in progress at once is C30_Witness.)   *)
(***************************************************************************)
\* f takes nothing from another function and lacks nothing
InputsAllProvided(f) ==
    /\ ConsumedTypes(f) \cap e.outputTypes = {}
    /\ \A R \in RequiredTypes(f) : \E i \in 1..Len(provided) : provided[i].type = R

C30_IndependentConcurrent ==
    runPc \in {"wait", "returned"} =>
        \A f \in Tasks :
            InputsAllProvided(f) =>
                /\ pc[f] \notin {"parked", "cancelled"}
                /\ f \notin skipped
                /\ AtInput(f) => ENABLED WaitNoNotifier(f)
                /\ pc[f] = "load" => ENABLED LoadValue(f)
                /\ (pc[f] = "loop" /\ pos[f] > Len(RunFuncOf(f).inputs)) => ENABLED Call(f)

\* two such functions are in their user code at once
C30_Witness ==
    /\ runPc = "wait"
    /\ {"mkB", "mkDo"} \subseteq Tasks
    /\ InputsAllProvided("mkB")
    /\ InputsAllProvided("mkDo")
    /\ pc["mkB"] = "calling"
    /\ pc["mkDo"] = "calling"

(***************************************************************************)
(* C27  Run never modifies the engine, and two Runs of one engine whose    *)
(* steps interleave do not interfere: each works on its own store, its own *)
(* channels and its own context, and so each has the outcome it has alone  *)
(* with its inputs.  For the Run with locals l: every stored value is the  *)
(* one computed from its own inputs; its context is cancelled only by its  *)
(* own caller or by the error of a function it called; an error it returns *)
(* is its own (of the engine, of its inputs, of its context or of a        *)
(* function it called); and when nothing failed and nothing was cancelled  *)
(* its called and skipped functions, its store and its results are those   *)
(* computed from the engine and its inputs alone.                          *)
(***************************************************************************)
OutcomeAsAlone(l) ==
    /\ \A T \in DOMAIN l.storage :
          /\ GetsValue(l.provided, T, Cardinality(Tasks))
          /\ l.storage[T] = ExpectedValue(l.provided, T)
    /\ l.ctxErr # Nil => l.callerCancelled \/ l.egErr # Nil
    /\ l.egErr # Nil =>
          \/ l.egErr \in {UserError(RunFuncOf(f).fnV) : f \in l.called}
          \/ l.callerCancelled /\ l.egErr \in {Canceled, DeadlineExceeded}
    /\ (l.runPc = "returned" /\ l.result.err # Nil) =>
          /\ l.result.out = <<>>
          /\ \/ ~e.initialized
                    /\ l.result.err = "error running engine that has not been initialized"
             \/ l.result.err = validateProvided(l.provided, e.outputTypes)
             \/ l.result.err = l.egErr
    /\ (l.runPc = "returned" /\ l.result.err = Nil /\ ~l.callerCancelled /\ l.ctxErr = Nil) =>
          /\ l.called = ExpectedCalled(l.provided)
          /\ l.skipped = Tasks \ ExpectedCalled(l.provided)
          /\ l.storage = ExpectedStore(l.provided)
          /\ l.result.out = ExpectedResult(l.provided, l.result.R)

C27_ConcurrentRuns ==
    /\ \E r \in Initialize(fns) : e = r.engine /\ initErr = r.err
    /\ OutcomeAsAlone(RunLocals)
    /\ other # NoOtherRun => OutcomeAsAlone(other)

\* one Run has returned its result while the other, started before that, is
\* in the user code of its second function with its own value of B
C27_Witness ==
    /\ runPc = "returned"
    /\ result.err = Nil
    /\ result.R = "C"
    /\ "C" \in DOMAIN result.out
    /\ result.out["C"].Val = "mkC(mkBe(ctx,a))"
    /\ other # NoOtherRun
    /\ other.runPc = "wait"
    /\ "mkC" \in Tasks
    /\ other.pc["mkC"] = "calling"
    /\ "B" \in DOMAIN other.storage
    /\ other.storage["B"].Val = "mkBe(ctx,a2)"

(***************************************************************************)
(* C31  Store-then-broadcast: whenever the channel of a type U is closed   *)
(* and the function returning U was called and returned without error,    *)
(* the storage holds under each return type of that function the value it  *)
(* returned (so all are stored before any of its channels is closed), and  *)
(* a consumer that is past its wait for U and about to look it up finds    *)
(* it.                                                                     *)
(***************************************************************************)
\* f was called and its user function returned a nil error
ReturnedValues(f) ==
    /\ f \in called
    /\ outValues[f] # <<>>
    /\ getError(outValues[f], RunFuncOf(f).errPos) = Nil

C31_StoreThenBroadcast ==
    runPc \in {"wait", "returned"} =>
        \A f \in Tasks : ReturnedValues(f) =>
            \A U \in OutputsOf(f) :
                /\ notifiers[U] = "closed" =>
                      \A j \in 1..Len(RunFuncOf(f).outputs) :
                          RunFuncOf(f).outputs[j] # ErrorT =>
                              /\ RunFuncOf(f).outputs[j] \in DOMAIN storage
                              /\ storage[RunFuncOf(f).outputs[j]] = outValues[f][j]
                /\ \A g \in Tasks :
                      (pc[g] = "load" /\ unwrapOptional(InputType(g)) = U) =>
                          /\ U \in DOMAIN storage
                          /\ loadValue(storage, InputType(g)).v.IsSet

\* a function with two results has closed the channel of the first and not
\* yet that of the second
C31_Witness ==
    /\ runPc = "wait"
    /\ "mkCD" \in Tasks
    /\ ReturnedValues("mkCD")
    /\ notifiers["C"] = "closed"
    /\ notifiers["D"] = "open"
    /\ {"C", "D"} \subseteq DOMAIN storage

(***************************************************************************)
(* C32  Signals are single-shot: in a Run of an engine that Initialize     *)
(* returned no close of a closed channel is reached (it would panic), a    *)
(* step changes a channel only from open to closed and only as a step of   *)
(* the goroutine of the function returning its type, and when Run returns  *)
(* a nil error every channel, one per output type, is closed.              *)
(***************************************************************************)
\* a step closes the channel of T
Closes(T) ==
    /\ T \in DOMAIN notifiers
    /\ T \in DOMAIN notifiers'
    /\ notifiers'[T] # notifiers[T]

C32_SingleShotSignals ==
    /\ [](runPc # "panic" /\ \A f \in Tasks : f \in DOMAIN pc => pc[f] # "panic")
    /\ [][\A T \in DOMAIN notifiers :
            Closes(T) =>
                /\ notifiers[T] = "open"
                /\ notifiers'[T] = "closed"
                /\ \E f \in Tasks :
                      /\ T \in OutputsOf(f)
                      /\ pc[f] = "close"
                      /\ RunFuncOf(f).outputs[pos[f]] = T
                      /\ pc'[f] \in {"close", "done"}]_vars
    /\ []((runPc = "returned" /\ e.initialized /\ result.err = Nil) =>
            /\ DOMAIN notifiers = e.outputTypes
            /\ \A T \in DOMAIN notifiers : notifiers[T] = "closed")

\* Run returned a nil error with the three channels closed, one of them by a
\* function that was skipped
C32_Witness ==
    /\ runPc = "returned"
    /\ result.err = Nil
    /\ DOMAIN notifiers = {"B", "C", "D"}
    /\ \A T \in DOMAIN notifiers : notifiers[T] = "closed"
    /\ skipped # {}
    /\ called # {}

(***************************************************************************)
(* C33  The value store only grows and has one writer per key: once Run    *)
(* has stored the provided inputs, no step removes an entry or changes its *)
(* value, so the entries of the provided types stay as provided; a step    *)
(* adds an entry only as a store of the goroutine of the function that was *)
(* called and returns that type, and such a store never finds its key in   *)
(* the storage already.                                                    *)
(***************************************************************************)
\* the goroutine of f takes a step of storeOutputs
Stores(f) ==
    /\ pc[f] = "store"
    /\ pc'[f] # pc[f] \/ pos'[f] # pos[f]

C33_StoreGrowsSingleWriter ==
    /\ [][runPc = "wait" =>
            /\ \A k \in DOMAIN storage : k \in DOMAIN storage' /\ storage'[k] = storage[k]
            /\ \A k \in DOMAIN storage' \ DOMAIN storage :
                  \E f \in Tasks :
                      /\ Stores(f)
                      /\ f \in called
                      /\ RunFuncOf(f).outputs[pos[f]] = k
                      /\ \A g \in Tasks \ {f} : k \notin OutputsOf(g)
            /\ \A f \in Tasks :
                  Stores(f) => RunFuncOf(f).outputs[pos[f]] \notin DOMAIN storage]_vars
    /\ [](runPc = "wait" =>
            \A i \in 1..Len(provided) :
                /\ provided[i].type \in DOMAIN storage
                /\ storage[provided[i].type] = provided[i])

\* Run returned with a provided entry and two produced entries in the storage
C33_Witness ==
    /\ runPc = "returned"
    /\ result.err = Nil
    /\ DOMAIN storage = {"A", "B", "C"}
    /\ storage["A"] = Plain("A", "a")
    /\ called = {"mkB", "mkC"}

(***************************************************************************)
(* C34  One task per function: the engine Initialize returns holds every   *)
(* function it was handed, each under its own key, Run starts one          *)
(* goroutine for each of them, and no goroutine enters its user function   *)
(* a second time.                                                          *)
(***************************************************************************)
\* the goroutine of f enters the user function
StartsCall(f) ==
    /\ f \in DOMAIN pc
    /\ f \in DOMAIN pc'
    /\ pc[f] # "calling"
    /\ pc'[f] = "calling"

C34_OneTaskPerFunction ==
    /\ [](e.initialized =>
            /\ Cardinality(DOMAIN e.functions) = Len(fns)
            /\ Cardinality(Tasks) = Len(fns)
            /\ EngineFunctions = {fns[i] : i \in 1..Len(fns)})
    /\ [](runPc = "wait" =>
            /\ DOMAIN pc = Tasks
            /\ \A f \in Tasks : pc[f] # "idle")
    /\ [][\A f \in Tasks : StartsCall(f) => f \notin called /\ called' = called \cup {f}]_vars

\* the goroutines of three functions are running and one is in its user code
C34_Witness ==
    /\ runPc = "wait"
    /\ Len(fns) = 3
    /\ Cardinality(Tasks) = 3
    /\ \E f \in Tasks : pc[f] = "calling"
    /\ \E f \in Tasks : pc[f] = "done" /\ f \in called

(***************************************************************************)
(* C35  Per-task state machine: a task goes from awaiting its inputs to    *)
(* running and then finished, or from awaiting to skipped and then         *)
(* finished, or from awaiting straight to finished when it is cancelled;   *)
(* it takes no other change of state.  A task that was skipped or          *)
(* cancelled never calls its user function, and a task that finishes with  *)
(* the error of its user function or with the error of the context has     *)
(* stored no output and closed none of its channels.                       *)
(***************************************************************************)
\* the state of the task of f when its goroutine is at p, having been
\* skipped or not
TaskState(p, wasSkipped) ==
    IF p \in {"idle", "loop", "parked", "cancelled", "load"} THEN "Awaiting-inputs"
    ELSE IF p = "done" THEN "Finished"
    ELSE IF p = "close" /\ wasSkipped THEN "Skipped"
    ELSE IF p \in {"calling", "store", "close"} THEN "Running"
    ELSE "none"

TaskTransitions ==
    {<<"Awaiting-inputs", "Running">>, <<"Awaiting-inputs", "Skipped">>,
     <<"Awaiting-inputs", "Finished">>, <<"Running", "Finished">>,
     <<"Skipped", "Finished">>}

C35_TaskStateMachine ==
    /\ [][\A f \in Tasks : (f \in DOMAIN pc /\ f \in DOMAIN pc') =>
            LET from == TaskState(pc[f], f \in skipped)
                to == TaskState(pc'[f], f \in skipped')
            IN  /\ from # "none" /\ to # "none"
                /\ from # to =>
                      /\ <<from, to>> \in TaskTransitions
                      /\ <<from, to>> = <<"Awaiting-inputs", "Finished">> =>
                            ctxErr' # Nil /\ ret'[f] = ctxErr'
                      /\ to = "Running" => f \notin skipped /\ f \in called'
                      /\ to = "Skipped" => f \notin called]_vars
    /\ [](runPc \in {"wait", "returned"} =>
            \A f \in Tasks :
                /\ f \in skipped => f \notin called
                /\ (pc[f] = "done" /\ ret[f] \in {Canceled, DeadlineExceeded}) =>
                        f \notin called
                /\ (pc[f] = "done" /\ ret[f] # Nil) =>
                        \A T \in OutputsOf(f) :
                            T \notin DOMAIN storage /\ notifiers[T] = "open")

\* of three tasks one finished with the error of its user function, one was
\* cancelled while it waited and one was skipped
C35_Witness ==
    /\ runPc = "wait"
    /\ Tasks = {"mkBe", "mkC", "mkDo"}
    /\ Failed("mkBe")
    /\ pc["mkC"] = "done" /\ ret["mkC"] = Canceled /\ "mkC" \notin called
    /\ pc["mkDo"] = "done" /\ "mkDo" \in skipped

(***************************************************************************)
(* C36  Once one function has returned an error, all other functions       *)
(* stop: no call of a user function is started in that Run after the       *)
(* error has been reported.                                                *)
(***************************************************************************)
C36_NoCallAfterError ==
    [][\A f \in Tasks :
          StartsCall(f) => ~ \E g \in Tasks : Failed(g) /\ egErr = ret[g]]_vars

(***************************************************************************)
(* C37  A task resolves its parameters in the declared order, one at a     *)
(* time, and is skipped at the first required parameter that is absent,    *)
(* without waiting for the later ones: it may skip and close its channels  *)
(* while the producers of its later parameters are still running.  It      *)
(* never looks a parameter up before the signal of that parameter fired.   *)
(***************************************************************************)
\* the signal of the type T has fired, or T has none
Fired(T) == T \in DOMAIN notifiers => notifiers[T] = "closed"

\* the task of f is in its loop over the parameters
Resolving(f) == pc[f] \in {"loop", "parked", "cancelled", "load"}

C37_DeclaredOrder ==
    /\ [](runPc = "wait" =>
            \A f \in Tasks :
                /\ Resolving(f) =>
                      /\ pos[f] \in 1..(Len(RunFuncOf(f).inputs) + 1)
                      /\ Len(ins[f]) = pos[f] - 1
                /\ pc[f] = "load" => Fired(unwrapOptional(InputType(f))))
    /\ [][runPc = "wait" =>
            \A f \in Tasks :
                /\ (Resolving(f) /\ ins'[f] # ins[f]) =>
                      /\ pos'[f] = pos[f] + 1
                      /\ Len(ins'[f]) = Len(ins[f]) + 1
                      /\ SubSeq(ins'[f], 1, Len(ins[f])) = ins[f]
                      /\ pos[f] # RunFuncOf(f).ctxPos =>
                            /\ pc[f] = "load"
                            /\ Fired(unwrapOptional(InputType(f)))
                /\ (f \notin skipped /\ f \in skipped') =>
                      /\ pc[f] = "load"
                      /\ Len(ins[f]) = pos[f] - 1
                      /\ ~isOptional(InputType(f))
                      /\ InputType(f) \notin DOMAIN storage
                      /\ Fired(InputType(f))
                      /\ ins'[f] = ins[f]]_vars

\* mkDo was skipped at its first parameter and has closed its channel while
\* mkC, the producer of its second parameter, is inside its user function
C37_Witness ==
    /\ runPc = "wait"
    /\ Tasks = {"mkC", "mkDo"}
    /\ "mkDo" \in skipped /\ pc["mkDo"] = "done"
    /\ ins["mkDo"] = <<>>
    /\ notifiers["D"] = "closed"
    /\ pc["mkC"] = "calling" /\ notifiers["C"] = "open"

(***************************************************************************)
(* C38  For three functions f: A->B, g: B->C, h: C->A registered in that   *)
(* order, the error of Initialize lists the path as 'f -> g -> h': each    *)
(* function of the cycle once, in the order of the walk from the first     *)
(* registered function, and the function the walk comes back to is not     *)
(* repeated at the end.                                                    *)
(***************************************************************************)
\* fs is three functions whose only dependencies are first to second, second
\* to third and third to first
IsRingOfThree(fs) ==
    /\ Len(fs) = 3
    /\ \A i, j \in 1..3 : Edge(fs, i, j) <=> (j = (i % 3) + 1)

C38_CyclePathMessage ==
    (runPc = "initialized" /\ PassesEarlierChecks(fns) /\ IsRingOfThree(fns)) =>
        /\ Rejected
        /\ initErr = "input validation error: cyclic dependency detected: "
                        \o referTo(fns[1]) \o " -> " \o referTo(fns[2])
                        \o " -> " \o referTo(fns[3])

\* Initialize refused mkB: A->B, mkC: B->C, mkA: C->A registered in that order
C38_Witness ==
    /\ runPc = "initialized"
    /\ fns = <<mkB, mkC, mkA>>
    /\ IsRingOfThree(fns)
    /\ initErr = "input validation error: cyclic dependency detected: "
                    \o "mkB(A) B -> mkC(B) (C, error) -> mkA(C) (A, error)"

====
